---- MODULE Spec2Model ----
(***************************************************************************)
(* DOCX <-> Markdown conversion of open_webui/utils/notes_docx_conversion. *)
(*                                                                         *)
(* Text is a sequence of one-character strings, so that strip, startswith, *)
(* join, the heading scan and the regular expressions are computed         *)
(* character by character, as the Python code computes them.  An absent    *)
(* XML attribute and an empty one are both the empty sequence: every place *)
(* of the code that reads an attribute treats None and "" alike            *)
(* (`if rid and target`, `if not fn_id`, `.get(..., "")`).                 *)
(***************************************************************************)
EXTENDS Integers, Sequences, FiniteSets, TLC

VARIABLES
    pc,                     \* position of the running call
    op,                     \* "none" | "import" | "export"
    content,                \* import_docx: the container passed in
    rel_map,                \* import_docx: rel_map
    footnotes,              \* import_docx: footnotes
    comments,               \* import_docx: comments
    body,                   \* import_docx: list(body)
    idx,                    \* import_docx: index of the next body child
    blocks,                 \* import_docx: blocks
    encountered_footnotes,  \* import_docx: encountered_footnotes
    encountered_comments,   \* import_docx: encountered_comments
    report,                 \* the call's report dict
    markdown_content,       \* import: the joined markup; export: the argument
    lines,                  \* _md_to_docx_xml: lines
    lineNo,                 \* _md_to_docx_xml: index of the next line
    in_table,               \* _md_to_docx_xml: in_table
    paragraphs,             \* _md_to_docx_xml: paragraphs
    title,                  \* export_note_to_docx: title
    archive,                \* export: the entries written to the zip, in order
    exc,                    \* the exception that ended the call, or "none"
    calls,                  \* concurrent calls: the locals of each worker's call
    note,                   \* NoteTable: the row of the note table
    uuids,                  \* NoteTable: the ids uuid.uuid4() has handed out
    clock,                  \* NoteTable: time.time_ns() at the last operation
    request                 \* NoteTable: the method called last and its arguments

vars == <<pc, op, content, rel_map, footnotes, comments, body, idx, blocks,
          encountered_footnotes, encountered_comments, report,
          markdown_content, lines, lineNo, in_table, paragraphs, title, archive,
          exc, calls, note, uuids, clock, request>>

\* the note store
noteVars == <<note, uuids, clock, request>>

\* the locals of the call that runs alone
callVars == <<pc, op, content, rel_map, footnotes, comments, body, idx, blocks,
              encountered_footnotes, encountered_comments, report,
              markdown_content, lines, lineNo, in_table, paragraphs, title,
              archive, exc>>

importVars == <<content, rel_map, footnotes, comments, body, idx, blocks,
                encountered_footnotes, encountered_comments>>

exportVars == <<lines, lineNo, in_table, paragraphs, title, archive>>

----------------------------------------------------------------------------
(* Bounds of the explored inputs *)

MaxBody == 2
MaxLines == 3
MaxMoment == 2
MaxClock == 3
NumWorkers == 2

----------------------------------------------------------------------------
(* Text primitives *)

NL == "\n"
Whitespace == {" ", NL}
Digits == {"0", "1", "2", "3", "4", "5", "6", "7", "8", "9"}

CodePoint ==
    (NL :> 10) @@ (" " :> 32) @@ ("!" :> 33) @@ ("#" :> 35) @@ ("&" :> 38)
    @@ ("(" :> 40) @@ (")" :> 41) @@ ("*" :> 42) @@ ("-" :> 45) @@ ("/" :> 47)
    @@ ("0" :> 48) @@ ("1" :> 49) @@ ("2" :> 50) @@ ("3" :> 51) @@ ("4" :> 52)
    @@ ("5" :> 53) @@ ("6" :> 54) @@ ("7" :> 55) @@ ("8" :> 56) @@ ("9" :> 57)
    @@ (":" :> 58) @@ ("<" :> 60) @@ (">" :> 62)
    @@ ("C" :> 67) @@ ("E" :> 69) @@ ("F" :> 70) @@ ("H" :> 72) @@ ("I" :> 73)
    @@ ("N" :> 78) @@ ("P" :> 80) @@ ("S" :> 83) @@ ("T" :> 84) @@ ("X" :> 88)
    @@ ("[" :> 91) @@ ("]" :> 93) @@ ("^" :> 94)
    @@ ("a" :> 97) @@ ("b" :> 98) @@ ("c" :> 99) @@ ("d" :> 100) @@ ("e" :> 101)
    @@ ("f" :> 102) @@ ("g" :> 103) @@ ("h" :> 104) @@ ("i" :> 105)
    @@ ("k" :> 107) @@ ("l" :> 108) @@ ("m" :> 109) @@ ("n" :> 110)
    @@ ("o" :> 111) @@ ("r" :> 114) @@ ("s" :> 115) @@ ("t" :> 116)
    @@ ("u" :> 117) @@ ("w" :> 119) @@ ("x" :> 120) @@ ("y" :> 121)
    @@ ("|" :> 124)

DigitValue == [d \in Digits |-> CodePoint[d] - 48]

RECURSIVE LStrip(_)
LStrip(s) == IF s # <<>> /\ Head(s) \in Whitespace THEN LStrip(Tail(s)) ELSE s

RECURSIVE RStrip(_)
RStrip(s) ==
    IF s # <<>> /\ s[Len(s)] \in Whitespace
    THEN RStrip(SubSeq(s, 1, Len(s) - 1))
    ELSE s

Strip(s) == RStrip(LStrip(s))

StartsWith(s, p) == Len(s) >= Len(p) /\ SubSeq(s, 1, Len(p)) = p

EndsWith(s, p) == Len(s) >= Len(p) /\ SubSeq(s, Len(s) - Len(p) + 1, Len(s)) = p

RECURSIVE Concat(_)
Concat(ss) == IF ss = <<>> THEN <<>> ELSE Head(ss) \o Concat(Tail(ss))

RECURSIVE Join(_, _)
Join(sep, ss) ==
    IF ss = <<>> THEN <<>>
    ELSE IF Len(ss) = 1 THEN Head(ss)
    ELSE Head(ss) \o sep \o Join(sep, Tail(ss))

Repeat(c, n) == [k \in 1..n |-> c]

RECURSIVE RemoveAll(_, _)
RemoveAll(s, old) ==
    IF Len(s) < Len(old) THEN s
    ELSE IF StartsWith(s, old)
         THEN RemoveAll(SubSeq(s, Len(old) + 1, Len(s)), old)
         ELSE <<Head(s)>> \o RemoveAll(Tail(s), old)

IsDigit(s) == s # <<>> /\ \A k \in 1..Len(s) : s[k] \in Digits

RECURSIVE IntOf(_)
IntOf(s) ==
    IF s = <<>> THEN 0
    ELSE 10 * IntOf(SubSeq(s, 1, Len(s) - 1)) + DigitValue[s[Len(s)]]

Min(a, b) == IF a <= b THEN a ELSE b

Max(a, b) == IF a >= b THEN a ELSE b

\* Python's str `<`: lexicographic by code point, a proper prefix first.
RECURSIVE StrLess(_, _)
StrLess(a, b) ==
    IF b = <<>> THEN FALSE
    ELSE IF a = <<>> THEN TRUE
    ELSE IF Head(a) # Head(b) THEN CodePoint[Head(a)] < CodePoint[Head(b)]
    ELSE StrLess(Tail(a), Tail(b))

----------------------------------------------------------------------------
(* Literals of the import side *)

sHeading == <<"H", "e", "a", "d", "i", "n", "g">>
sTitle == <<"T", "i", "t", "l", "e">>
sSubtitle == <<"S", "u", "b", "t", "i", "t", "l", "e">>
sDrawing == <<"d", "r", "a", "w", "i", "n", "g">>
sImageOpen == <<"!", "[", "I", "m", "a", "g", "e", "]", "(">>
sEmbeddedImage ==
    <<"e", "m", "b", "e", "d", "d", "e", "d", "-", "i", "m", "a", "g", "e">>
sBr == <<"<", "b", "r", "/", ">">>
sDashes == <<"-", "-", "-">>
sFootnotesHeader == <<NL, "#", "#", " ", "F", "o", "o", "t", "n", "o", "t", "e", "s">>
sCommentsHeader == <<NL, "#", "#", " ", "C", "o", "m", "m", "e", "n", "t", "s">>
sCommentOpen == <<"[", "c", "o", "m", "m", "e", "n", "t", ":">>

----------------------------------------------------------------------------
(* The report dict *)

NewReport ==
    [mapped |-> [styles |-> 0, tables |-> 0, images |-> 0,
                 footnotes |-> 0, comments |-> 0],
     unsupported_elements |-> <<>>,
     lossy |-> FALSE]

Bump(r, cat) == [r EXCEPT !.mapped[cat] = @ + 1]

Unsupported(r, name) ==
    [r EXCEPT !.unsupported_elements = Append(@, name)]

SeqRange(s) == {s[k] : k \in 1..Len(s)}

\* sorted(S) of a set of strings
RECURSIVE SortedStrings(_)
SortedStrings(S) ==
    IF S = {} THEN <<>>
    ELSE LET m == CHOOSE x \in S : \A y \in S \ {x} : StrLess(x, y)
         IN  <<m>> \o SortedStrings(S \ {m})

NoRecomputeFinalize(r) ==
    [r EXCEPT !.unsupported_elements = SortedStrings(SeqRange(@))]

NoDedupFinalize(r) ==
    [r EXCEPT !.lossy = r.unsupported_elements # <<>>]

\* unsupported = sorted(set(...)); report["lossy"] = bool(unsupported)
Finalize(r) ==
    LET unsupported == SortedStrings(SeqRange(r.unsupported_elements))
    IN  [r EXCEPT !.unsupported_elements = unsupported,
                  !.lossy = unsupported # <<>>]

----------------------------------------------------------------------------
(* Import: relationship map and auxiliary tables *)

EmptyMap == [k \in {} |-> <<>>]

\* the entry a dict keeps for a key: the last one assigned
LastOf(entries, hits) == entries[CHOOSE n \in hits : \A o \in hits : o <= n]

RelKeep(e) == e.Id # <<>> /\ e.Target # <<>>

\* _build_relationship_map
BuildRelationshipMap(c) ==
    IF "word/_rels/document.xml.rels" \notin c.namelist THEN EmptyMap
    ELSE LET kept == {n \in 1..Len(c.rels) : RelKeep(c.rels[n])}
         IN  [k \in {c.rels[n].Id : n \in kept}
                 |-> LastOf(c.rels, {n \in kept : c.rels[n].Id = k}).Target]

\* " ".join(t.text or "" for t in entry.findall(".//w:t")).strip()
EntryText(e) == Strip(Join(<<" ">>, e.t))

FootnoteKeep(e) ==
    /\ ~(e.id = <<>> \/ StartsWith(e.id, <<"-">>))
    /\ EntryText(e) # <<>>

\* _extract_footnotes
ExtractFootnotes(c) ==
    IF "word/footnotes.xml" \notin c.namelist THEN EmptyMap
    ELSE LET kept == {n \in 1..Len(c.footnotes) : FootnoteKeep(c.footnotes[n])}
         IN  [k \in {c.footnotes[n].id : n \in kept}
                 |-> EntryText(LastOf(c.footnotes, {n \in kept : c.footnotes[n].id = k}))]

CommentKeep(e) == e.id # <<>> /\ EntryText(e) # <<>>

\* _extract_comments
ExtractComments(c) ==
    IF "word/comments.xml" \notin c.namelist THEN EmptyMap
    ELSE LET kept == {n \in 1..Len(c.comments) : CommentKeep(c.comments[n])}
         IN  [k \in {c.comments[n].id : n \in kept}
                 |-> EntryText(LastOf(c.comments, {n \in kept : c.comments[n].id = k}))]

----------------------------------------------------------------------------
(* Import: runs, paragraphs, tables *)

\* `text = f"{open}{text}{close}"` under its condition
Wrap(flag, open, t, close) == IF flag THEN open \o t \o close ELSE t

\* the text of a run after the bold, italic and underline wrapping
RunText(run) ==
    Wrap(run.u, <<"<", "u", ">">>,
         Wrap(run.i, <<"*">>,
              Wrap(run.b, <<"*", "*">>, run.t, <<"*", "*">>),
              <<"*">>),
         <<"<", "/", "u", ">">>)

\* rel_map.get(rid, "embedded-image")
ImageTarget(rid, rels) == IF rid \in DOMAIN rels THEN rels[rid] ELSE sEmbeddedImage

\* _run_to_markdown: [out |-> the returned text, report |-> the report after it]
RunToMarkdown(run, r, rels) ==
    IF run.drawing = "none" THEN [out |-> RunText(run), report |-> r]
    ELSE IF run.drawing = "blip" /\ run.embed # <<>>
    THEN [out |-> sImageOpen \o ImageTarget(run.embed, rels) \o <<")">>,
          report |-> Bump(r, "images")]
    ELSE [out |-> RunText(run), report |-> Unsupported(r, sDrawing)]

\* the accumulator of a loop that collects outputs and threads the report
Start(r) == [out |-> <<>>, report |-> r]

\* "".join(...): the text of one more run
AfterRun(acc, h) == [out |-> acc.out \o h.out, report |-> h.report]

\* list.append of one more result
AfterItem(acc, h) == [out |-> Append(acc.out, h.out), report |-> h.report]

\* `if paragraph: paragraphs.append(paragraph)`, paragraph the stripped text
AfterCellParagraph(acc, h) ==
    [out |-> IF Strip(h.out) # <<>> THEN Append(acc.out, Strip(h.out)) ELSE acc.out,
     report |-> h.report]

\* `if cells: rows.append(cells)`
AfterRow(acc, h) ==
    [out |-> IF h.out # <<>> THEN Append(acc.out, h.out) ELSE acc.out,
     report |-> h.report]

\* "".join(_run_to_markdown(r, ...) for r in runs), threading the report
RECURSIVE RunsToMarkdown(_, _, _)
RunsToMarkdown(runs, acc, rels) ==
    IF runs = <<>> THEN acc
    ELSE RunsToMarkdown(Tail(runs),
                        AfterRun(acc, RunToMarkdown(Head(runs), acc.report, rels)),
                        rels)

\* the paragraphs of one cell: [out |-> the non-empty paragraph texts, ...]
RECURSIVE CellParagraphs(_, _, _)
CellParagraphs(ps, acc, rels) ==
    IF ps = <<>> THEN acc
    ELSE CellParagraphs(Tail(ps),
                        AfterCellParagraph(acc, RunsToMarkdown(Head(ps), Start(acc.report), rels)),
                        rels)

\* "<br/>".join(paragraphs)
JoinOut(sep, c) == [out |-> Join(sep, c.out), report |-> c.report]

CellToMarkdown(tc, r, rels) == JoinOut(sBr, CellParagraphs(tc, Start(r), rels))

RECURSIVE RowCells(_, _, _)
RowCells(tr, acc, rels) ==
    IF tr = <<>> THEN acc
    ELSE RowCells(Tail(tr),
                  AfterItem(acc, CellToMarkdown(Head(tr), acc.report, rels)),
                  rels)

\* rows: the rows that hold at least one cell, in order
RECURSIVE TableRows(_, _, _)
TableRows(trs, acc, rels) ==
    IF trs = <<>> THEN acc
    ELSE TableRows(Tail(trs),
                   AfterRow(acc, RowCells(Head(trs), Start(acc.report), rels)),
                   rels)

NoTruncatePadRow(row, header) ==
    row \o Repeat(<<>>, Max(0, Len(header) - Len(row)))

\* padded = row + [""] * max(0, len(header) - len(row)); padded[:len(header)]
PadRow(row, header) ==
    LET padded == row \o Repeat(<<>>, Max(0, Len(header) - Len(row)))
    IN  SubSeq(padded, 1, Min(Len(padded), Len(header)))

TrimmedRenderRow(cells) == Strip(<<"|", " ">> \o Join(<<" ", "|", " ">>, cells)) \o <<" ", "|">>

\* f"| {' | '.join(cells)} |"
RenderRow(cells) == <<"|", " ">> \o Join(<<" ", "|", " ">>, cells) \o <<" ", "|">>

\* md_rows: the header, the separator and the data rows
TableLines(rows) ==
    <<RenderRow(rows[1]), RenderRow(Repeat(sDashes, Len(rows[1])))>>
    \o [k \in 1..(Len(rows) - 1) |-> RenderRow(PadRow(rows[k + 1], rows[1]))]

\* `if not rows: return ""`, else count the table and join its lines
TableResult(parsed) ==
    IF parsed.out = <<>> THEN parsed
    ELSE [out |-> Join(<<NL>>, TableLines(parsed.out)),
          report |-> Bump(parsed.report, "tables")]

\* _parse_table
ParseTable(table, r, rels) == TableResult(TableRows(table.rows, Start(r), rels))

----------------------------------------------------------------------------
(* Import: the body walk *)

tP == <<"p">>
tTbl == <<"t", "b", "l">>
tSectPr == <<"s", "e", "c", "t", "P", "r">>

SwappedTitleHeadingPrefix(style_val) ==
    IF StartsWith(style_val, sHeading)
    THEN LET level == RemoveAll(style_val, sHeading)
         IN  IF IsDigit(level)
             THEN [prefix |-> Repeat("#", Min(6, IntOf(level))) \o <<" ">>,
                   styled |-> TRUE]
             ELSE [prefix |-> <<>>, styled |-> FALSE]
    ELSE IF style_val \in {sTitle, sSubtitle}
    THEN [prefix |-> IF style_val = sTitle THEN <<"#", "#", " ">> ELSE <<"#", " ">>,
          styled |-> TRUE]
    ELSE [prefix |-> <<>>, styled |-> FALSE]

\* the prefix of a paragraph and whether mapped.styles is incremented for it
HeadingPrefix(style_val) ==
    IF StartsWith(style_val, sHeading)
    THEN LET level == RemoveAll(style_val, sHeading)
         IN  IF IsDigit(level)
             THEN [prefix |-> Repeat("#", Min(6, IntOf(level))) \o <<" ">>,
                   styled |-> TRUE]
             ELSE [prefix |-> <<>>, styled |-> FALSE]
    ELSE IF style_val \in {sTitle, sSubtitle}
    THEN [prefix |-> IF style_val = sSubtitle THEN <<"#", "#", " ">> ELSE <<"#", " ">>,
          styled |-> TRUE]
    ELSE [prefix |-> <<>>, styled |-> FALSE]

\* the run texts of a paragraph, one part per run
RECURSIVE RunParts(_, _, _)
RunParts(runs, acc, rels) ==
    IF runs = <<>> THEN acc
    ELSE RunParts(Tail(runs),
                  AfterItem(acc, RunToMarkdown(Head(runs), acc.report, rels)),
                  rels)

\* ids of the w:footnoteReference (w:commentReference) nodes of a paragraph
\* that resolve against the table, in document order
RECURSIVE ResolvedRefs(_, _)
ResolvedRefs(ids, table) ==
    IF ids = <<>> THEN <<>>
    ELSE (IF Head(ids) # <<>> /\ Head(ids) \in DOMAIN table
          THEN <<Head(ids)>> ELSE <<>>) \o ResolvedRefs(Tail(ids), table)

FootnoteMarker(id) == <<"[", "^">> \o id \o <<"]">>

CommentMarker(id) == sCommentOpen \o id \o <<"]">>

RECURSIVE BumpBy(_, _, _)
BumpBy(r, cat, n) == IF n = 0 THEN r ELSE BumpBy(Bump(r, cat), cat, n - 1)

\* one paragraph child: the block text (possibly empty), the report and
\* the ids it adds to encountered_footnotes / encountered_comments
ImportParagraph(child, r, rels, fns, cms) ==
    LET hp == HeadingPrefix(child.style)
        r1 == IF hp.styled THEN Bump(r, "styles") ELSE r
        rp == RunParts(child.runs, Start(r1), rels)
        fn_ids == ResolvedRefs([k \in 1..Len(child.runs) |-> child.runs[k].fnref], fns)
        c_ids == ResolvedRefs([k \in 1..Len(child.runs) |-> child.runs[k].cref], cms)
        parts == rp.out
                 \o [k \in 1..Len(fn_ids) |-> FootnoteMarker(fn_ids[k])]
                 \o [k \in 1..Len(c_ids) |-> CommentMarker(c_ids[k])]
    IN  [text |-> Strip(hp.prefix \o Concat(parts)),
         report |-> BumpBy(BumpBy(rp.report, "footnotes", Len(fn_ids)),
                           "comments", Len(c_ids)),
         fn_ids |-> fn_ids,
         c_ids |-> c_ids]

\* sorted(..., key=lambda x: int(x) if x.isdigit() else x) compares an int
\* with a str, and raises TypeError, as soon as both kinds of key occur
SortRaises(S) == \E a, b \in S : IsDigit(a) /\ ~IsDigit(b)

IdLess(a, b) ==
    IF IsDigit(a) THEN IntOf(a) < IntOf(b) ELSE StrLess(a, b)

RECURSIVE SortedIds(_)
SortedIds(S) ==
    IF S = {} THEN <<>>
    ELSE LET m == CHOOSE x \in S : \A y \in S \ {x} : IdLess(x, y)
         IN  <<m>> \o SortedIds(S \ {m})

FootnoteLine(fid, fns) == <<"[", "^">> \o fid \o <<"]", ":", " ">> \o fns[fid]

CommentLine(cid, cms) == <<"-", " ", "[">> \o cid \o <<"]", " ">> \o cms[cid]

RepeatingFootnoteSection(ef, fns) ==
    <<sFootnotesHeader>> \o [k \in 1..Len(ef) |-> FootnoteLine(ef[k], fns)]

FootnoteSection(ef, fns) ==
    LET ids == SortedIds(SeqRange(ef))
    IN  <<sFootnotesHeader>> \o [k \in 1..Len(ids) |-> FootnoteLine(ids[k], fns)]

CommentSection(ecm, cms) ==
    LET ids == SortedIds(SeqRange(ecm))
    IN  <<sCommentsHeader>> \o [k \in 1..Len(ids) |-> CommentLine(ids[k], cms)]

----------------------------------------------------------------------------
(* Import: the explored containers *)

Run(t, b, i, u, drawing, embed, fnref, cref) ==
    [t |-> t, b |-> b, i |-> i, u |-> u, drawing |-> drawing, embed |-> embed,
     fnref |-> fnref, cref |-> cref]

TextRun(t) == Run(t, FALSE, FALSE, FALSE, "none", <<>>, <<>>, <<>>)
DrawingRun(drawing, embed) == Run(<<>>, FALSE, FALSE, FALSE, drawing, embed, <<>>, <<>>)
FootnoteRefRun(id) == Run(<<>>, FALSE, FALSE, FALSE, "none", <<>>, id, <<>>)
CommentRefRun(id) == Run(<<>>, FALSE, FALSE, FALSE, "none", <<>>, <<>>, id)

P(style, runs) == [tag |-> tP, style |-> style, runs |-> runs, rows |-> <<>>]
Tbl(rows) == [tag |-> tTbl, style |-> <<>>, runs |-> <<>>, rows |-> rows]
Other(tag) == [tag |-> tag, style |-> <<>>, runs |-> <<>>, rows |-> <<>>]

\* a cell holding one paragraph of one text run
Cell(t) == << <<TextRun(t)>> >>

PlainRuns ==
    { <<TextRun(<<"a">>)>>,
      <<TextRun(<<"H", "e", "l", "l", "o">>)>>,
      <<TextRun(<<"b", " ">>)>>,
      <<TextRun(<<>>)>>,
      <<Run(<<"c">>, TRUE, FALSE, FALSE, "none", <<>>, <<>>, <<>>)>>,
      <<Run(<<>>, FALSE, TRUE, TRUE, "none", <<>>, <<>>, <<>>)>>,
      <<TextRun(<<"a">>), TextRun(<<" ", "b">>)>> }

RichRuns ==
    { <<DrawingRun("blip", <<"r", "1">>)>>,
      <<DrawingRun("blip", <<"r", "9">>)>>,
      <<DrawingRun("blip", <<>>)>>,
      <<DrawingRun("noblip", <<>>), DrawingRun("noblip", <<>>)>>,
      <<FootnoteRefRun(<<"2">>), TextRun(<<"a">>)>>,
      <<FootnoteRefRun(<<"1", "0">>), FootnoteRefRun(<<"2">>)>>,
      <<FootnoteRefRun(<<"x">>), FootnoteRefRun(<<"k">>)>>,
      <<FootnoteRefRun(<<"-", "1">>), FootnoteRefRun(<<"3">>)>>,
      <<CommentRefRun(<<"1">>), TextRun(<<"a">>)>>,
      <<CommentRefRun(<<"y">>), CommentRefRun(<<"1", "1">>)>>,
      <<CommentRefRun(<<"-", "1">>)>> }

Styles ==
    { sHeading \o <<d>> : d \in {"0", "1", "2", "3", "4", "5", "6", "7"} }
    \cup { sHeading \o <<"1", "2">>, sHeading \o <<"X">>, sHeading,
           sTitle, sSubtitle, <<"N", "o", "r", "m", "a", "l">> }

Tables ==
    { Tbl(<< <<Cell(<<"h">>), Cell(<<"k">>)>>, <<Cell(<<"a">>)>> >>),
      Tbl(<< <<Cell(<<"h">>), Cell(<<"k">>)>>, <<Cell(<<"a">>), Cell(<<>>)>> >>),
      Tbl(<< <<Cell(<<"h">>), Cell(<<"k">>)>>,
             <<Cell(<<"a">>), Cell(<<"b">>), Cell(<<"c">>)>>, <<>> >>),
      Tbl(<< <<>>, <<Cell(<<"h">>)>>, <<>>, <<Cell(<<"a">>), Cell(<<"b">>)>> >>),
      Tbl(<< <<Cell(<<"h">>), Cell(<<"k">>)>>, <<Cell(<<"b">>)>>,
             <<Cell(<<"a">>), Cell(<<"b">>), Cell(<<"c">>)>> >>),
      Tbl(<< <<>> >>),
      Tbl(<<>>),
      Tbl(<< << <<<<TextRun(<<"h">>)>>, <<TextRun(<<" ">>)>>, <<TextRun(<<"k">>)>>>>,
                Cell(<<" ">>), Cell(<<"m">>) >>,
             << <<>>, Cell(<<"a">>) >> >>),
      Tbl(<< << <<<<DrawingRun("noblip", <<>>)>>>>, <<<<DrawingRun("blip", <<"r", "1">>)>>>> >> >>),
      Tbl(<< <<Cell(<<"h">>)>>,
             <<Cell(<<"a">>), <<<<DrawingRun("blip", <<"r", "1">>)>>>> >> >>) }

OtherTags == { tSectPr, <<"s", "d", "t">>, <<"i", "n", "s">>, <<"d", "e", "l">> }

Nodes ==
    { P(<<>>, runs) : runs \in PlainRuns \cup RichRuns }
    \cup { P(style, <<TextRun(<<"a">>)>>) : style \in Styles }
    \cup { P(sHeading \o <<"1">>, <<TextRun(<<"H", "e", "l", "l", "o">>)>>),
           P(sHeading \o <<"2">>, <<TextRun(<<>>)>>),
           P(sTitle, <<TextRun(<<"b", " ">>)>>),
           P(sSubtitle, <<DrawingRun("noblip", <<>>)>>) }
    \cup Tables
    \cup { Other(tag) : tag \in OtherTags }

\* the nodes that fill the other positions of a body
CoreNodes ==
    { P(<<>>, <<TextRun(<<"a">>)>>),
      P(<<>>, <<DrawingRun("noblip", <<>>), DrawingRun("noblip", <<>>)>>),
      P(<<>>, <<FootnoteRefRun(<<"1", "0">>), FootnoteRefRun(<<"2">>)>>),
      P(<<>>, <<FootnoteRefRun(<<"x">>), FootnoteRefRun(<<"k">>)>>),
      P(<<>>, <<CommentRefRun(<<"y">>), CommentRefRun(<<"1", "1">>)>>),
      Tbl(<< <<Cell(<<"h">>), Cell(<<"k">>)>>, <<Cell(<<"a">>)>> >>),
      Other(<<"s", "d", "t">>),
      Other(<<"d", "e", "l">>) }

\* every sequence over S of at most n elements
RECURSIVE SeqsUpTo(_, _)
SeqsUpTo(S, n) ==
    IF n = 0 THEN {<<>>}
    ELSE LET shorter == SeqsUpTo(S, n - 1)
         IN  shorter \cup {Append(b, x) : b \in shorter, x \in S}

\* b with its k-th element replaced by x; b itself for k = 0
WithOne(b, k, x) == IF k = 0 THEN b ELSE [b EXCEPT ![k] = x]

Rels ==
    << [Id |-> <<"r", "1">>, Target |-> <<"m", "/", "i">>],
       [Id |-> <<>>, Target |-> <<"m", "/", "k">>],
       [Id |-> <<"r", "2">>, Target |-> <<>>] >>

FootnoteEntries ==
    << [id |-> <<"-", "1">>, t |-> <<<<"s">>>>],
       [id |-> <<"2">>, t |-> <<<<"f">>, <<"g">>>>],
       [id |-> <<"1", "0">>, t |-> <<<<"t">>>>],
       [id |-> <<"x">>, t |-> <<<<"h">>>>],
       [id |-> <<"k">>, t |-> <<<<"k">>>>],
       [id |-> <<"3">>, t |-> <<<<" ">>, <<>>>>],
       [id |-> <<>>, t |-> <<<<"n">>>>] >>

CommentEntries ==
    << [id |-> <<"1">>, t |-> <<<<"c">>>>],
       [id |-> <<"1", "1">>, t |-> <<<<"d">>>>],
       [id |-> <<"y">>, t |-> <<<<"e">>>>],
       [id |-> <<"-", "1">>, t |-> <<<<"m">>>>] >>

AllParts ==
    { "word/document.xml", "word/_rels/document.xml.rels",
      "word/footnotes.xml", "word/comments.xml" }

Container(zip, namelist, docxml, b) ==
    [zip |-> zip, namelist |-> namelist, docxml |-> docxml, body |-> b,
     rels |-> Rels, footnotes |-> FootnoteEntries, comments |-> CommentEntries]

\* what import_docx cannot open or parse
BrokenContainers ==
    { Container(FALSE, {}, "ok", <<>>),
      Container(TRUE, AllParts \ {"word/document.xml"}, "ok", <<>>),
      Container(TRUE, AllParts, "malformed", <<>>),
      Container(TRUE, AllParts, "nobody", <<>>) }

NoContainer == Container(FALSE, {}, "none", <<>>)

----------------------------------------------------------------------------
(* Initial state and the import call *)

\* the workers that run calls concurrently
Workers == 1..NumWorkers

\* db.query(Note).filter(Note.id == id).first() finding no row
NoNote == [exists |-> FALSE]

\* a worker between two calls: no locals
IdleCall ==
    [pc |-> "idle", op |-> "none", content |-> NoContainer,
     rel_map |-> EmptyMap, footnotes |-> EmptyMap, comments |-> EmptyMap,
     body |-> <<>>, idx |-> 1, blocks |-> <<>>,
     encountered_footnotes |-> <<>>, encountered_comments |-> <<>>,
     report |-> NewReport, markdown_content |-> <<>>, lines |-> <<>>,
     lineNo |-> 1, in_table |-> FALSE, paragraphs |-> <<>>, title |-> <<>>,
     archive |-> <<>>, exc |-> "none"]

Init ==
    /\ pc = "idle"
    /\ op = "none"
    /\ content = NoContainer
    /\ rel_map = EmptyMap
    /\ footnotes = EmptyMap
    /\ comments = EmptyMap
    /\ body = <<>>
    /\ idx = 1
    /\ blocks = <<>>
    /\ encountered_footnotes = <<>>
    /\ encountered_comments = <<>>
    /\ report = NewReport
    /\ markdown_content = <<>>
    /\ lines = <<>>
    /\ lineNo = 1
    /\ in_table = FALSE
    /\ paragraphs = <<>>
    /\ title = <<>>
    /\ archive = <<>>
    /\ exc = "none"
    /\ calls = [w \in Workers |-> IdleCall]
    /\ note = NoNote
    /\ uuids = 0
    /\ clock = 0
    /\ request = [method |-> "none"]

NoDocumentCheckOpenError(c) ==
    IF ~c.zip THEN "BadZipFile"
    ELSE IF c.docxml = "malformed" THEN "ParseError"
    ELSE IF c.docxml = "nobody" THEN "ValueError"
    ELSE "none"

\* which exception, if any, ends import_docx before the body walk
OpenError(c) ==
    IF ~c.zip THEN "BadZipFile"
    ELSE IF "word/document.xml" \notin c.namelist THEN "ValueError"
    ELSE IF c.docxml = "malformed" THEN "ParseError"
    ELSE IF c.docxml = "nobody" THEN "ValueError"
    ELSE "none"

\* import_docx up to the body walk
ImportBegin(c) ==
    /\ pc = "idle"
    /\ op' = "import"
    /\ content' = c
    /\ report' = NewReport
    /\ exc' = OpenError(c)
    /\ IF OpenError(c) # "none"
       THEN /\ pc' = "raised"
            /\ UNCHANGED <<rel_map, footnotes, comments, body>>
       ELSE /\ pc' = "walk"
            /\ rel_map' = BuildRelationshipMap(c)
            /\ footnotes' = ExtractFootnotes(c)
            /\ comments' = ExtractComments(c)
            /\ body' = c.body
    /\ idx' = 1
    /\ blocks' = <<>>
    /\ encountered_footnotes' = <<>>
    /\ encountered_comments' = <<>>
    /\ UNCHANGED <<markdown_content, exportVars>>
    /\ UNCHANGED <<calls, noteVars>>

\* what a paragraph child leaves: `if block: blocks.append(block)`
ParagraphBlock(p) ==
    [block |-> p.text, report |-> p.report, fn_ids |-> p.fn_ids, c_ids |-> p.c_ids]

\* what a table child leaves: `if table_md: blocks.append(table_md)`
TableBlock(t) ==
    [block |-> t.out, report |-> t.report, fn_ids |-> <<>>, c_ids |-> <<>>]

ReportedSectPrWalkChild(child, r, rels, fns, cms) ==
    IF child.tag = tP
    THEN ParagraphBlock(ImportParagraph(child, r, rels, fns, cms))
    ELSE IF child.tag = tTbl
    THEN TableBlock(ParseTable(child, r, rels))
    ELSE [block |-> <<>>, report |-> Unsupported(r, child.tag),
          fn_ids |-> <<>>, c_ids |-> <<>>]

SilentOtherWalkChild(child, r, rels, fns, cms) ==
    IF child.tag = tP
    THEN ParagraphBlock(ImportParagraph(child, r, rels, fns, cms))
    ELSE IF child.tag = tTbl
    THEN TableBlock(ParseTable(child, r, rels))
    ELSE [block |-> <<>>, report |-> r, fn_ids |-> <<>>, c_ids |-> <<>>]

\* one iteration of `for child in list(body)`
WalkChild(child, r, rels, fns, cms) ==
    IF child.tag = tP
    THEN ParagraphBlock(ImportParagraph(child, r, rels, fns, cms))
    ELSE IF child.tag = tTbl
    THEN TableBlock(ParseTable(child, r, rels))
    ELSE IF child.tag # tSectPr
    THEN [block |-> <<>>, report |-> Unsupported(r, child.tag),
          fn_ids |-> <<>>, c_ids |-> <<>>]
    ELSE [block |-> <<>>, report |-> r, fn_ids |-> <<>>, c_ids |-> <<>>]

ImportChild ==
    /\ pc = "walk"
    /\ idx <= Len(body)
    /\ LET w == WalkChild(body[idx], report, rel_map, footnotes, comments)
       IN  /\ blocks' = IF w.block # <<>> THEN Append(blocks, w.block) ELSE blocks
           /\ report' = w.report
           /\ encountered_footnotes' = encountered_footnotes \o w.fn_ids
           /\ encountered_comments' = encountered_comments \o w.c_ids
    /\ idx' = idx + 1
    /\ UNCHANGED <<pc, op, content, rel_map, footnotes, comments, body,
                   markdown_content, exportVars, exc>>
    /\ UNCHANGED <<calls, noteVars>>

\* the trailing sections; the blocks appended before a raising sort stay
ImportSections ==
    /\ pc = "walk"
    /\ idx > Len(body)
    /\ LET fnRaises == encountered_footnotes # <<>>
                       /\ SortRaises(SeqRange(encountered_footnotes))
           cRaises == encountered_comments # <<>>
                      /\ SortRaises(SeqRange(encountered_comments))
           b1 == IF encountered_footnotes = <<>> THEN blocks
                 ELSE IF fnRaises THEN Append(blocks, sFootnotesHeader)
                 ELSE blocks \o FootnoteSection(encountered_footnotes, footnotes)
           b2 == IF fnRaises \/ encountered_comments = <<>> THEN b1
                 ELSE IF cRaises THEN Append(b1, sCommentsHeader)
                 ELSE b1 \o CommentSection(encountered_comments, comments)
       IN  /\ blocks' = b2
           /\ IF fnRaises \/ cRaises
              THEN pc' = "raised" /\ exc' = "TypeError"
              ELSE pc' = "finish" /\ exc' = exc
    /\ UNCHANGED <<op, content, rel_map, footnotes, comments, body, idx,
                   encountered_footnotes, encountered_comments, report,
                   markdown_content, exportVars>>
    /\ UNCHANGED <<calls, noteVars>>

\* join the blocks, finalize the report, return the result
ImportFinish ==
    /\ pc = "finish"
    /\ op = "import"
    /\ markdown_content' = Strip(Join(<<NL, NL>>, blocks))
    /\ report' = Finalize(report)
    /\ pc' = "returned"
    /\ UNCHANGED <<op, importVars, exportVars, exc>>
    /\ UNCHANGED <<calls, noteVars>>

\* the call is over; the next call starts from nothing of this one
Reset ==
    /\ pc \in {"returned", "raised"}
    /\ pc' = "idle"
    /\ op' = "none"
    /\ content' = NoContainer
    /\ rel_map' = EmptyMap
    /\ footnotes' = EmptyMap
    /\ comments' = EmptyMap
    /\ body' = <<>>
    /\ idx' = 1
    /\ blocks' = <<>>
    /\ encountered_footnotes' = <<>>
    /\ encountered_comments' = <<>>
    /\ report' = NewReport
    /\ markdown_content' = <<>>
    /\ lines' = <<>>
    /\ lineNo' = 1
    /\ in_table' = FALSE
    /\ paragraphs' = <<>>
    /\ title' = <<>>
    /\ archive' = <<>>
    /\ exc' = "none"
    /\ UNCHANGED <<calls, noteVars>>

----------------------------------------------------------------------------
(* Export: _md_to_docx_xml *)

\* str.splitlines() over an alphabet whose only line boundary is "\n"
RECURSIVE SplitLines(_)
SplitLines(s) ==
    IF s = <<>> THEN <<>>
    ELSE IF \A k \in 1..Len(s) : s[k] # NL THEN <<s>>
    ELSE LET k == CHOOSE n \in 1..Len(s) :
                      s[n] = NL /\ \A m \in 1..(n - 1) : s[m] # NL
         IN  <<SubSeq(s, 1, k - 1)>> \o SplitLines(SubSeq(s, k + 1, Len(s)))

\* line.strip().startswith("|") and line.strip().endswith("|")
IsTableLine(line) ==
    StartsWith(Strip(line), <<"|">>) /\ EndsWith(Strip(line), <<"|">>)

\* set(line.replace("|", "").strip()) == {"-"} or not line.strip()
IsSeparatorOrBlank(line) ==
    \/ SeqRange(Strip(RemoveAll(line, <<"|">>))) = {"-"}
    \/ Strip(line) = <<>>

AmpersandKeptEscapeChar(c) ==
    IF c = "<" THEN <<"&", "l", "t", ";">>
    ELSE IF c = ">" THEN <<"&", "g", "t", ";">>
    ELSE IF c = "\"" THEN <<"&", "q", "u", "o", "t", ";">>
    ELSE IF c = "'" THEN <<"&", "#", "x", "2", "7", ";">>
    ELSE <<c>>

EscapeChar(c) ==
    IF c = "&" THEN <<"&", "a", "m", "p", ";">>
    ELSE IF c = "<" THEN <<"&", "l", "t", ";">>
    ELSE IF c = ">" THEN <<"&", "g", "t", ";">>
    ELSE IF c = "\"" THEN <<"&", "q", "u", "o", "t", ";">>
    ELSE IF c = "'" THEN <<"&", "#", "x", "2", "7", ";">>
    ELSE <<c>>

\* html.escape(text)
HtmlEscape(text) == Concat([k \in 1..Len(text) |-> EscapeChar(text[k])])

\* the references the XML parser of ET.fromstring resolves in the explored
\* texts: the predefined entities and the character reference of "'"
References ==
    { [ref |-> <<"&", "a", "m", "p", ";">>, char |-> "&"],
      [ref |-> <<"&", "l", "t", ";">>, char |-> "<"],
      [ref |-> <<"&", "g", "t", ";">>, char |-> ">"],
      [ref |-> <<"&", "q", "u", "o", "t", ";">>, char |-> "\""],
      [ref |-> <<"&", "a", "p", "o", "s", ";">>, char |-> "'"],
      [ref |-> <<"&", "#", "x", "2", "7", ";">>, char |-> "'"] }

\* the character the parser reads at the head of s, and what it consumes:
\* a reference, or a character as it stands
ReadChar(s) ==
    IF \E r \in References : StartsWith(s, r.ref)
    THEN LET r == CHOOSE x \in References : StartsWith(s, x.ref)
         IN  [char |-> r.char, len |-> Len(r.ref)]
    ELSE [char |-> Head(s), len |-> 1]

\* the character data an XML parser returns for the escaped text s
RECURSIVE XmlUnescape(_)
XmlUnescape(s) ==
    IF s = <<>> THEN <<>>
    ELSE LET rc == ReadChar(s)
         IN  <<rc.char>> \o XmlUnescape(SubSeq(s, rc.len + 1, Len(s)))

\* heading_level: the number of leading "#" of the line
RECURSIVE LeadingHashes(_)
LeadingHashes(line) ==
    IF line # <<>> /\ Head(line) = "#" THEN 1 + LeadingHashes(Tail(line)) ELSE 0

\* '<w:p/>'
EmptyParagraph == [empty |-> TRUE, pStyle |-> 0, text |-> <<>>]

\* f"<w:p>{ppr}<w:r><w:t xml:space=\"preserve\">{escaped}</w:t></w:r></w:p>",
\* pStyle 0 standing for an empty ppr, n for <w:pStyle w:val="Heading{n}"/>
TextParagraph(level, escaped) == [empty |-> FALSE, pStyle |-> level, text |-> escaped]

UnstrippedLineParagraph(line) ==
    LET heading_level == LeadingHashes(line)
        rest == SubSeq(line, heading_level + 1, Len(line))
        text == IF heading_level > 0 /\ StartsWith(rest, <<" ">>)
                THEN rest ELSE line
    IN  TextParagraph(IF 1 <= heading_level /\ heading_level <= 6
                      THEN heading_level ELSE 0,
                      HtmlEscape(text))

\* the paragraph of a non-blank line outside a table
LineParagraph(line) ==
    LET heading_level == LeadingHashes(line)
        rest == SubSeq(line, heading_level + 1, Len(line))
        text == IF heading_level > 0 /\ StartsWith(rest, <<" ">>)
                THEN Strip(rest) ELSE line
    IN  TextParagraph(IF 1 <= heading_level /\ heading_level <= 6
                      THEN heading_level ELSE 0,
                      HtmlEscape(text))

BlankExitsScanLine(line, inTable) ==
    IF IsTableLine(line) THEN [in_table |-> TRUE, out |-> <<>>]
    ELSE IF inTable /\ SeqRange(Strip(RemoveAll(line, <<"|">>))) = {"-"}
    THEN [in_table |-> inTable, out |-> <<>>]
    ELSE IF Strip(line) = <<>> THEN [in_table |-> FALSE, out |-> <<EmptyParagraph>>]
    ELSE [in_table |-> FALSE, out |-> <<LineParagraph(line)>>]

SeparatorExitsScanLine(line, inTable) ==
    IF IsTableLine(line) THEN [in_table |-> TRUE, out |-> <<>>]
    ELSE IF inTable /\ Strip(line) = <<>> THEN [in_table |-> inTable, out |-> <<>>]
    ELSE IF Strip(line) = <<>> THEN [in_table |-> FALSE, out |-> <<EmptyParagraph>>]
    ELSE [in_table |-> FALSE, out |-> <<LineParagraph(line)>>]

\* one iteration of `for line in lines`:
\* [in_table |-> in_table after it, out |-> the paragraphs it appends]
ScanLine(line, inTable) ==
    IF IsTableLine(line) THEN [in_table |-> TRUE, out |-> <<>>]
    ELSE IF inTable /\ IsSeparatorOrBlank(line) THEN [in_table |-> inTable, out |-> <<>>]
    ELSE IF Strip(line) = <<>> THEN [in_table |-> FALSE, out |-> <<EmptyParagraph>>]
    ELSE [in_table |-> FALSE, out |-> <<LineParagraph(line)>>]

----------------------------------------------------------------------------
(* Export: the report of export_note_to_docx *)

LineStart(md, p) == p = 1 \/ md[p - 1] = NL

\* the "#" run that starts at position p
RECURSIVE HashRun(_, _)
HashRun(md, p) ==
    IF p <= Len(md) /\ md[p] = "#" THEN 1 + HashRun(md, p + 1) ELSE 0

\* len(re.findall(r"^#{1,6}\s", md, flags=re.MULTILINE))
CountHeadingMarkers(md) ==
    Cardinality({ p \in 1..Len(md) :
        /\ LineStart(md, p)
        /\ LET n == HashRun(md, p)
           IN  /\ 1 <= n /\ n <= 6
               /\ p + n <= Len(md)
               /\ md[p + n] \in Whitespace })

\* re.search(r"\|.*\|", md)
HasTableSyntax(md) ==
    \E i \in 1..Len(md) :
        /\ md[i] = "|"
        /\ \E j \in (i + 1)..Len(md) :
              /\ md[j] = "|"
              /\ \A k \in (i + 1)..(j - 1) : md[k] # NL

\* re.search(r"!\[[^\]]*\]\([^\)]+\)", md)
HasImageSyntax(md) ==
    \E i \in 1..Len(md) :
        /\ i + 1 <= Len(md)
        /\ md[i] = "!" /\ md[i + 1] = "["
        /\ \E j \in (i + 2)..Len(md) :
              /\ j + 1 <= Len(md)
              /\ md[j] = "]" /\ md[j + 1] = "("
              /\ \A m \in (i + 2)..(j - 1) : md[m] # "]"
              /\ \E k \in (j + 3)..Len(md) :
                    /\ md[k] = ")"
                    /\ \A m \in (j + 2)..(k - 1) : md[m] # ")"

\* re.search(r"\[\^[^\]]+\]", md)
HasFootnoteSyntax(md) ==
    \E i \in 1..Len(md) :
        /\ i + 1 <= Len(md)
        /\ md[i] = "[" /\ md[i + 1] = "^"
        /\ \E j \in (i + 3)..Len(md) :
              /\ md[j] = "]"
              /\ \A m \in (i + 2)..(j - 1) : md[m] # "]"

sTables == <<"t", "a", "b", "l", "e", "s">>
sImages == <<"i", "m", "a", "g", "e", "s">>
sFootnotes == <<"f", "o", "o", "t", "n", "o", "t", "e", "s">>

NoImagesExportScanReport(r, md) ==
    LET r0 == [r EXCEPT !.mapped.styles = CountHeadingMarkers(md)]
        r1 == IF HasTableSyntax(md) THEN Unsupported(r0, sTables) ELSE r0
    IN  IF HasFootnoteSyntax(md) THEN Unsupported(r1, sFootnotes) ELSE r1

\* report["mapped"]["styles"] = ...; the three appends to unsupported_elements
ExportScanReport(r, md) ==
    LET r0 == [r EXCEPT !.mapped.styles = CountHeadingMarkers(md)]
        r1 == IF HasTableSyntax(md) THEN Unsupported(r0, sTables) ELSE r0
        r2 == IF HasImageSyntax(md) THEN Unsupported(r1, sImages) ELSE r1
    IN  IF HasFootnoteSyntax(md) THEN Unsupported(r2, sFootnotes) ELSE r2

\* report["unsupported_elements"] = sorted(set(...)); report["lossy"] = bool(...)
ExportFinalize(r) ==
    LET unsupported == SortedStrings(SeqRange(r.unsupported_elements))
    IN  [r EXCEPT !.unsupported_elements = unsupported,
                  !.lossy = unsupported # <<>>]

----------------------------------------------------------------------------
(* Export: the explored markup *)

Hashes(n) == Repeat("#", n)

sTitleText == <<"T", "i", "t", "l", "e">>
sItalicText ==
    <<"S", "o", "m", "e", " ", "*", "i", "t", "a", "l", "i", "c", "*", " ",
      "t", "e", "x", "t">>

CoreLines ==
    { <<>>, <<"a">>, <<"#", " ">> \o sTitleText, sItalicText, <<"|", "a", "|">>, <<"-", "-">>,
      <<"#", "t">> }

MdLines ==
    CoreLines
    \cup { Hashes(n) \o <<" ", "T">> : n \in 1..7 }
    \cup { <<" ">>,
           <<"#">>,
           <<"#", " ", " ", "T", " ">>,
           <<" ", "#", " ", "T">>,
           <<"|", "-", "|">>,
           <<"|">>,
           <<"-", "|", "-">>,
           <<"-", " ", "-">>,
           <<" ", "|", "a", "|", " ">>,
           <<"a", "|", "b", "|", "c">>,
           <<"#", " ", "|", "a", "|">>,
           <<"!", "[", "]", "(", "u", ")">>,
           <<"a", "[", "^", "1", "]">>,
           <<"<", "a", ">", "&", "\"", "'">> }

PartNames ==
    << "[Content_Types].xml", "_rels/.rels", "docProps/app.xml",
       "docProps/core.xml", "word/document.xml" >>

\* the titles of the explored exports
Titles == { <<"<", "&", "b">> }

\* the moments at which a call may be made: a call reads the clock for
\* `now` and again in each writestr, all within its one moment
Moments == 1..MaxMoment

\* one zip entry as writestr(name, data) makes it: the name, the data and
\* the modification time the zipfile module takes from the clock
Entry(name, data, now) == [name |-> name, data |-> data, date_time |-> now]

\* core_xml: the escaped title and `now` as created and as modified
CoreXml(t, now) == <<HtmlEscape(t), now, now>>

\* the <w:sectPr> element that closes the body
SectPr == [tag |-> "w:sectPr", pgSz |-> <<"12240", "15840">>, pgMar |-> <<"1440">>]

NoSectPrDocumentXml(ps) == ps

\* the main document _md_to_docx_xml returns, as the children of <w:body>:
\* "".join(paragraphs) and then the section properties
DocumentXml(ps) == ps \o <<SectPr>>

CoreLastPackage(t, ps, now) ==
    << Entry("[Content_Types].xml", <<"content_types">>, now),
       Entry("_rels/.rels", <<"rels">>, now),
       Entry("docProps/app.xml", <<"app_xml">>, now),
       Entry("word/document.xml", DocumentXml(ps), now),
       Entry("docProps/core.xml", CoreXml(t, now), now) >>

\* the archive export_note_to_docx returns; content_types, rels and app_xml
\* are fixed texts
Package(t, ps, now) ==
    << Entry("[Content_Types].xml", <<"content_types">>, now),
       Entry("_rels/.rels", <<"rels">>, now),
       Entry("docProps/app.xml", <<"app_xml">>, now),
       Entry("docProps/core.xml", CoreXml(t, now), now),
       Entry("word/document.xml", DocumentXml(ps), now) >>

\* the loop of _md_to_docx_xml from line ls[1] on: the paragraphs at its end
RECURSIVE ScanLines(_, _, _)
ScanLines(ls, inTable, ps) ==
    IF ls = <<>> THEN ps
    ELSE LET sc == ScanLine(Head(ls), inTable)
         IN  ScanLines(Tail(ls), sc.in_table, ps \o sc.out)

\* _md_to_docx_xml: the paragraphs it has collected when the loop ends
MdToDocxXml(md) == ScanLines(SplitLines(md), FALSE, <<>>)

\* export_note_to_docx called at the moment now: what it returns
ExportNoteToDocx(t, md, now) ==
    [bytes |-> Package(t, MdToDocxXml(md), now),
     report |-> ExportFinalize(ExportScanReport(NewReport, md))]

----------------------------------------------------------------------------
(* The export call *)

\* export_note_to_docx entering _md_to_docx_xml
ExportBegin(t, md) ==
    /\ pc = "idle"
    /\ op' = "export"
    /\ title' = t
    /\ report' = NewReport
    /\ markdown_content' = md
    /\ lines' = SplitLines(md)
    /\ lineNo' = 1
    /\ in_table' = FALSE
    /\ paragraphs' = <<>>
    /\ pc' = "scan"
    /\ UNCHANGED <<importVars, archive, exc>>
    /\ UNCHANGED <<calls, noteVars>>

ExportLine ==
    /\ pc = "scan"
    /\ lineNo <= Len(lines)
    /\ LET sc == ScanLine(lines[lineNo], in_table)
       IN  /\ in_table' = sc.in_table
           /\ paragraphs' = paragraphs \o sc.out
    /\ lineNo' = lineNo + 1
    /\ UNCHANGED <<pc, op, importVars, report, markdown_content, lines, title,
                   archive, exc>>
    /\ UNCHANGED <<calls, noteVars>>

\* back in export_note_to_docx: the report
ExportReport ==
    /\ pc = "scan"
    /\ lineNo > Len(lines)
    /\ report' = ExportFinalize(ExportScanReport(report, markdown_content))
    /\ pc' = "package"
    /\ UNCHANGED <<op, importVars, markdown_content, exportVars, exc>>
    /\ UNCHANGED <<calls, noteVars>>

\* `now`, the five writestr calls and the return, at the moment of the call
ExportPackage ==
    /\ pc = "package"
    /\ \E now \in Moments : archive' = Package(title, paragraphs, now)
    /\ pc' = "returned"
    /\ UNCHANGED <<op, importVars, report, markdown_content, lines, lineNo,
                   in_table, paragraphs, title, exc>>
    /\ UNCHANGED <<calls, noteVars>>

\* The explored calls.  A body is at most MaxBody nodes of CoreNodes with at
\* most one of them replaced by any node of Nodes; the markup is at most
\* MaxLines lines of CoreLines, at most one replaced by any line of MdLines,
\* joined by "\n".
ImportCall ==
    /\ pc = "idle"
    /\ \/ \E c \in BrokenContainers : ImportBegin(c)
       \/ \E b \in SeqsUpTo(CoreNodes, MaxBody) : \E k \in 0..Len(b) :
             \E x \in (IF k = 0 THEN {Other(tSectPr)} ELSE Nodes) :
                ImportBegin(Container(TRUE, AllParts, "ok", WithOne(b, k, x)))
       \/ \E x \in Nodes :
             ImportBegin(Container(TRUE, {"word/document.xml"}, "ok", <<x>>))

ExportCall ==
    /\ pc = "idle"
    /\ \E ls \in SeqsUpTo(CoreLines, MaxLines) : \E k \in 0..Len(ls) :
          \E x \in (IF k = 0 THEN {<<>>} ELSE MdLines) : \E t \in Titles :
             ExportBegin(t, Join(<<NL>>, WithOne(ls, k, x)))

ImportNext ==
    \/ ImportCall
    \/ ImportChild
    \/ ImportSections
    \/ ImportFinish
    \/ Reset

SpecImport == Init /\ [][ImportNext]_vars

ExportNext ==
    \/ ExportCall
    \/ ExportLine
    \/ ExportReport
    \/ ExportPackage
    \/ Reset

SpecExport == Init /\ [][ExportNext]_vars

Next ==
    \/ ImportCall
    \/ ImportChild
    \/ ImportSections
    \/ ImportFinish
    \/ ExportCall
    \/ ExportLine
    \/ ExportReport
    \/ ExportPackage
    \/ Reset

Spec == Init /\ [][Next]_vars

----------------------------------------------------------------------------
(* Concurrent calls: every call works on locals of its own *)

\* import_docx up to the body walk, as the locals of one call
ImportBeginCall(c) ==
    IF OpenError(c) # "none"
    THEN [IdleCall EXCEPT !.pc = "raised", !.op = "import", !.content = c,
                          !.exc = OpenError(c)]
    ELSE [IdleCall EXCEPT !.pc = "walk", !.op = "import", !.content = c,
                          !.rel_map = BuildRelationshipMap(c),
                          !.footnotes = ExtractFootnotes(c),
                          !.comments = ExtractComments(c),
                          !.body = c.body]

\* the locals after what the walk of one child left
AfterChild(s, w) ==
    [s EXCEPT !.blocks = IF w.block # <<>> THEN Append(@, w.block) ELSE @,
              !.report = w.report,
              !.encountered_footnotes = @ \o w.fn_ids,
              !.encountered_comments = @ \o w.c_ids,
              !.idx = @ + 1]

\* one iteration of `for child in list(body)`
ImportChildCall(s) ==
    AfterChild(s, WalkChild(s.body[s.idx], s.report, s.rel_map, s.footnotes, s.comments))

\* the footnotes section, up to a raising sort
FootnoteBlocks(s) ==
    IF s.encountered_footnotes = <<>> THEN s.blocks
    ELSE IF SortRaises(SeqRange(s.encountered_footnotes))
    THEN Append(s.blocks, sFootnotesHeader)
    ELSE s.blocks \o FootnoteSection(s.encountered_footnotes, s.footnotes)

\* the trailing sections
ImportSectionsCall(s) ==
    IF s.encountered_footnotes # <<>> /\ SortRaises(SeqRange(s.encountered_footnotes))
    THEN [s EXCEPT !.blocks = FootnoteBlocks(s), !.pc = "raised", !.exc = "TypeError"]
    ELSE IF s.encountered_comments = <<>>
    THEN [s EXCEPT !.blocks = FootnoteBlocks(s), !.pc = "finish"]
    ELSE IF SortRaises(SeqRange(s.encountered_comments))
    THEN [s EXCEPT !.blocks = Append(FootnoteBlocks(s), sCommentsHeader),
                   !.pc = "raised", !.exc = "TypeError"]
    ELSE [s EXCEPT !.blocks = FootnoteBlocks(s)
                               \o CommentSection(s.encountered_comments, s.comments),
                   !.pc = "finish"]

\* join the blocks, finalize the report, return
ImportFinishCall(s) ==
    [s EXCEPT !.markdown_content = Strip(Join(<<NL, NL>>, s.blocks)),
              !.report = Finalize(s.report),
              !.pc = "returned"]

\* export_note_to_docx entering _md_to_docx_xml
ExportBeginCall(t, md) ==
    [IdleCall EXCEPT !.pc = "scan", !.op = "export", !.title = t,
                     !.markdown_content = md, !.lines = SplitLines(md)]

\* the locals after what the scan of one line left
AfterLine(s, sc) ==
    [s EXCEPT !.in_table = sc.in_table,
              !.paragraphs = @ \o sc.out,
              !.lineNo = @ + 1]

\* one iteration of `for line in lines`
ExportLineCall(s) == AfterLine(s, ScanLine(s.lines[s.lineNo], s.in_table))

\* back in export_note_to_docx: the report
ExportReportCall(s) ==
    [s EXCEPT !.report = ExportFinalize(ExportScanReport(s.report, s.markdown_content)),
              !.pc = "package"]

\* the five writestr calls and the return
ExportPackageCall(s, now) ==
    [s EXCEPT !.archive = Package(s.title, s.paragraphs, now),
              !.pc = "returned"]

\* the next step of a call that is neither packaging nor over
StepCall(s) ==
    IF s.pc = "walk"
    THEN IF s.idx <= Len(s.body) THEN ImportChildCall(s) ELSE ImportSectionsCall(s)
    ELSE IF s.pc = "finish" THEN ImportFinishCall(s)
    ELSE IF s.lineNo <= Len(s.lines) THEN ExportLineCall(s)
    ELSE ExportReportCall(s)

SharedReportOf(cs, w) == cs[CHOOSE v \in DOMAIN cs : \A u \in DOMAIN cs : v <= u].report

\* the report dict the call of worker w reads and writes: the one its own
\* call constructed
ReportOf(cs, w) == cs[w].report

\* the locals the next step of worker w works on
Locals(cs, w) == [cs[w] EXCEPT !.report = ReportOf(cs, w)]

\* the containers and the markup of the concurrent calls
ConcurrentContainers ==
    { Container(TRUE, AllParts, "ok",
                << Other(<<"s", "d", "t">>),
                   P(<<>>, <<DrawingRun("noblip", <<>>), DrawingRun("blip", <<"r", "1">>)>>) >>),
      Container(TRUE, AllParts, "ok",
                << P(sHeading \o <<"1">>, <<TextRun(<<"a">>)>>),
                   P(<<>>, <<FootnoteRefRun(<<"1", "0">>), CommentRefRun(<<"1">>)>>),
                   Tbl(<< <<Cell(<<"h">>), Cell(<<"k">>)>>, <<Cell(<<"a">>)>> >>) >>),
      Container(TRUE, AllParts, "ok",
                << P(<<>>, <<CommentRefRun(<<"y">>), CommentRefRun(<<"1", "1">>)>>) >>),
      Container(FALSE, {}, "ok", <<>>) }

ConcurrentMarkups ==
    { Join(<<NL>>, << <<"#", " ">> \o sTitleText, <<>>, <<"|", "a", "|">> >>),
      Join(<<NL>>, << <<"a", "[", "^", "1", "]">>, <<"#", "#", " ", "T">> >>) }

ConcurrentBegin(w) ==
    /\ calls[w].pc = "idle"
    /\ \/ \E c \in ConcurrentContainers :
             calls' = [calls EXCEPT ![w] = ImportBeginCall(c)]
       \/ \E md \in ConcurrentMarkups :
             calls' = [calls EXCEPT ![w] = ExportBeginCall(<<"N">>, md)]
    /\ UNCHANGED <<callVars, noteVars>>

ConcurrentStep(w) ==
    /\ calls[w].pc \in {"walk", "finish", "scan"}
    /\ calls' = [calls EXCEPT ![w] = StepCall(Locals(calls, w))]
    /\ UNCHANGED <<callVars, noteVars>>

ConcurrentPackage(w) ==
    /\ calls[w].pc = "package"
    /\ \E now \in Moments :
          calls' = [calls EXCEPT ![w] = ExportPackageCall(Locals(calls, w), now)]
    /\ UNCHANGED <<callVars, noteVars>>

\* the call is over: its locals are gone
ConcurrentReturn(w) ==
    /\ calls[w].pc \in {"returned", "raised"}
    /\ calls' = [calls EXCEPT ![w] = IdleCall]
    /\ UNCHANGED <<callVars, noteVars>>

ConcurrentNext ==
    \/ \E w \in Workers : ConcurrentBegin(w)
    \/ \E w \in Workers : ConcurrentStep(w)
    \/ \E w \in Workers : ConcurrentPackage(w)
    \/ \E w \in Workers : ConcurrentReturn(w)

SpecConcurrent == Init /\ [][ConcurrentNext]_vars

----------------------------------------------------------------------------
(* The note store: models/notes.py *)

DOCUMENT_SCHEMA_VERSION == 2

\* None where a dict may stand
None == [None |-> TRUE]

IsNone(d) == DOMAIN d = {"None"}

\* {}
EmptyDict == [k \in {} |-> 0]

\* d.get(k, default)
Get(d, k, default) == IF k \in DOMAIN d THEN d[k] ELSE default

\* d[k] = v
Put(d, k, v) == [x \in DOMAIN d \cup {k} |-> IF x = k THEN v ELSE d[x]]

\* {**a, **b}
Update(a, b) ==
    [x \in DOMAIN a \cup DOMAIN b |-> IF x \in DOMAIN b THEN b[x] ELSE a[x]]

\* `d or {}`
OrEmpty(d) == IF IsNone(d) THEN EmptyDict ELSE d

\* the fields of NoteContentModel, by alias
ContentKeys == {"json", "html", "md"}

\* the fields of NoteDocumentModel
DocumentKeys ==
    {"sections", "page_settings", "styles", "comments", "revisions",
     "footnotes", "references"}

\* NoteContentModel.model_validate(c).model_dump(exclude_none=True, by_alias=True)
ContentDump(c) ==
    [k \in {x \in DOMAIN c \cap ContentKeys : c[x] # "None"} |-> c[k]]

\* NoteDataModel.migrate_legacy_shape: the dict handed to field validation
MigrateLegacyShape(value) ==
    LET v == OrEmpty(value)
        raw_content == Get(v, "content", EmptyDict)
        with_legacy == [k \in DOMAIN raw_content \cup (DOMAIN v \cap ContentKeys) |->
                           IF k \in DOMAIN raw_content THEN raw_content[k] ELSE v[k]]
        document == Get(v, "document", EmptyDict)
    IN  [content |-> with_legacy,
         document_schema_version |->
             Get(v, "document_schema_version", DOCUMENT_SCHEMA_VERSION),
         document |-> [k \in DocumentKeys |-> Get(document, k, <<>>)]]

\* NoteDataModel.model_validate(value).model_dump(exclude_none=True, by_alias=True):
\* the model has the three fields content, document_schema_version, document
NoteDataModel(value) ==
    LET m == MigrateLegacyShape(value)
    IN  [m EXCEPT !.content = ContentDump(m.content)]

\* _document_has_extended_features
DocumentHasExtendedFeatures(document) ==
    \E k \in DocumentKeys : DOMAIN document[k] # {}

\* normalize_note_data
NormalizeNoteData(data) == IF IsNone(data) THEN None ELSE NoteDataModel(data)

\* maybe_downgrade_note_data
MaybeDowngradeNoteData(data) ==
    IF IsNone(data) THEN None
    ELSE LET normalized == NoteDataModel(data)
         IN  IF DocumentHasExtendedFeatures(normalized.document)
             THEN normalized
             ELSE [content |-> normalized.content]

\* merge_note_data
MergeNoteData(base, incoming) ==
    IF IsNone(incoming) THEN MaybeDowngradeNoteData(NormalizeNoteData(base))
    ELSE LET base_model == NoteDataModel(OrEmpty(base))
             incoming_content ==
                 IF "content" \in DOMAIN incoming THEN incoming.content
                 ELSE [k \in DOMAIN incoming \cap ContentKeys |-> incoming[k]]
             merged_content == ContentDump(Update(base_model.content, incoming_content))
             merged_document ==
                 IF "document" \in DOMAIN incoming
                 THEN Update(base_model.document, incoming.document)
                 ELSE base_model.document
             merged ==
                 [content |-> merged_content,
                  document_schema_version |->
                      Max(base_model.document_schema_version,
                          Get(incoming, "document_schema_version",
                              DOCUMENT_SCHEMA_VERSION)),
                  document |-> [k \in DocumentKeys |-> merged_document[k]]]
         IN  MaybeDowngradeNoteData(merged)

\* the explored data payloads of the forms
Payloads ==
    { [content |-> [md |-> "x"]],
      [md |-> "y"],
      [content |-> [md |-> "x", html |-> "None"],
       document_schema_version |-> 2,
       document |-> [k \in DocumentKeys |-> <<>>]],
      [document |-> [footnotes |-> <<[id |-> "f1"]>>]],
      EmptyDict,
      None }

\* the explored NoteForm values
NoteForms ==
    { [title |-> "t", data |-> d, meta |-> m, access_control |-> None] :
         d \in {None, [content |-> [md |-> "x", html |-> "h"]]},
         m \in {None, [k |-> "v"]} }

\* the explored NoteUpdateForm values, as model_dump(exclude_unset=True)
\* gives them
NoteUpdateForms ==
    { [title |-> "u"], [meta |-> [k |-> "w"]], [access_control |-> EmptyDict] }
    \cup { [data |-> d] : d \in Payloads }
    \cup { [title |-> "u", data |-> [content |-> [md |-> "x"]]] }

\* the explored comment forms and comment updates
NoteCommentForms == { [text |-> "c", anchor_from |-> 0, anchor_to |-> 1] }

NoteCommentUpdateForms == { [resolved |-> TRUE], [text |-> "d", anchor_to |-> 2] }

\* the ids handed out so far, for the calls that name a comment or revision
Ids == 1..(uuids + 1)

\* get_note_comments
GetNoteComments(row) ==
    IF ~row.exists THEN <<>> ELSE Get(OrEmpty(row.data), "comments", <<>>)

\* get_note_revisions
GetNoteRevisions(row) ==
    IF ~row.exists THEN <<>> ELSE Get(OrEmpty(row.data), "revisions", <<>>)

\* a method that finds no row, or raises before db.commit(): nothing is stored
Served(r) ==
    /\ request' = r
    /\ UNCHANGED <<note, uuids, clock>>

\* note.data = data; note.updated_at = int(time.time_ns()); db.commit()
Commit(r, data, ids) ==
    /\ request' = r
    /\ clock' = clock + 1
    /\ uuids' = ids
    /\ note' = [note EXCEPT !.data = data, !.updated_at = clock + 1]

\* insert_new_note; the table of the model holds one row
InsertNewNote(form) ==
    /\ ~note.exists
    /\ clock < MaxClock
    /\ request' = [method |-> "insert_new_note"]
    /\ clock' = clock + 1
    /\ uuids' = uuids + 1
    /\ note' = [exists |-> TRUE,
                id |-> uuids + 1,
                title |-> form.title,
                data |-> MaybeDowngradeNoteData(NormalizeNoteData(form.data)),
                meta |-> form.meta,
                access_control |-> form.access_control,
                created_at |-> clock + 1,
                updated_at |-> clock + 1]
    /\ UNCHANGED <<callVars, calls>>

\* update_note_by_id; {**note.meta, **form_data["meta"]} raises TypeError
\* when note.meta is None
UpdateNoteById(form) ==
    /\ clock < MaxClock
    /\ LET r == [method |-> "update_note_by_id", data |-> "data" \in DOMAIN form]
       IN  IF ~note.exists \/ ("meta" \in DOMAIN form /\ IsNone(note.meta))
           THEN Served(r)
           ELSE /\ request' = r
                /\ clock' = clock + 1
                /\ uuids' = uuids
                /\ note' =
                     [note EXCEPT
                        !.title = Get(form, "title", @),
                        !.data = IF "data" \in DOMAIN form
                                 THEN MergeNoteData(@, form.data) ELSE @,
                        !.meta = IF "meta" \in DOMAIN form
                                 THEN Update(@, form.meta) ELSE @,
                        !.access_control = Get(form, "access_control", @),
                        !.updated_at = clock + 1]
    /\ UNCHANGED <<callVars, calls>>

\* delete_note_by_id
DeleteNoteById ==
    /\ request' = [method |-> "delete_note_by_id"]
    /\ note' = NoNote
    /\ UNCHANGED <<uuids, clock>>
    /\ UNCHANGED <<callVars, calls>>

\* insert_revision_event
InsertRevisionEvent(user_id, update, revision_content) ==
    /\ clock < MaxClock
    /\ LET r == [method |-> "insert_revision_event"]
           data == OrEmpty(note.data)
           revision == [id |-> uuids + 1,
                        author_id |-> user_id,
                        author_name |-> user_id,
                        timestamp |-> clock + 1,
                        update |-> update,
                        content |-> OrEmpty(revision_content),
                        status |-> "pending"]
       IN  IF ~note.exists THEN Served(r)
           ELSE Commit(r, Put(data, "revisions",
                              Append(Get(data, "revisions", <<>>), revision)),
                       uuids + 1)
    /\ UNCHANGED <<callVars, calls>>

\* the first element of a list whose id is the given one, 0 when none is
FirstWithId(list, id) ==
    IF \E k \in 1..Len(list) : list[k].id = id
    THEN CHOOSE k \in 1..Len(list) :
            list[k].id = id /\ \A j \in 1..(k - 1) : list[j].id # id
    ELSE 0

\* update_revision_status
UpdateRevisionStatus(revision_id, status) ==
    /\ clock < MaxClock
    /\ LET r == [method |-> "update_revision_status"]
           data == OrEmpty(note.data)
           revisions == Get(data, "revisions", <<>>)
           k == FirstWithId(revisions, revision_id)
       IN  IF ~note.exists \/ k = 0 THEN Served(r)
           ELSE Commit(r,
                       Put(data, "revisions",
                           [revisions EXCEPT ![k] =
                               Put(Put(@, "status", status), "reviewed_at", clock + 1)]),
                       uuids)
    /\ UNCHANGED <<callVars, calls>>

\* insert_note_comment
InsertNoteComment(user_id, form) ==
    /\ clock < MaxClock
    /\ LET r == [method |-> "insert_note_comment"]
           data == OrEmpty(note.data)
           comment == [id |-> uuids + 1,
                       user_id |-> user_id,
                       user_name |-> user_id,
                       text |-> form.text,
                       anchor_from |-> form.anchor_from,
                       anchor_to |-> form.anchor_to,
                       resolved |-> FALSE,
                       created_at |-> clock + 1,
                       updated_at |-> clock + 1]
       IN  IF ~note.exists THEN Served(r)
           ELSE Commit(r, Put(data, "comments",
                              Append(Get(data, "comments", <<>>), comment)),
                       uuids + 1)
    /\ UNCHANGED <<callVars, calls>>

\* update_note_comment
UpdateNoteComment(comment_id, form) ==
    /\ clock < MaxClock
    /\ LET r == [method |-> "update_note_comment"]
           data == OrEmpty(note.data)
           cs == Get(data, "comments", <<>>)
           k == FirstWithId(cs, comment_id)
       IN  IF ~note.exists \/ k = 0 THEN Served(r)
           ELSE Commit(r,
                       Put(data, "comments",
                           [cs EXCEPT ![k] =
                               Put(Update(@, form), "updated_at", clock + 1)]),
                       uuids)
    /\ UNCHANGED <<callVars, calls>>

\* delete_note_comment
DeleteNoteComment(comment_id) ==
    /\ clock < MaxClock
    /\ LET r == [method |-> "delete_note_comment", id |-> comment_id]
           data == OrEmpty(note.data)
           cs == Get(data, "comments", <<>>)
           IsOther(c) == c.id # comment_id
           updated_comments == SelectSeq(cs, IsOther)
       IN  IF ~note.exists \/ Len(updated_comments) = Len(cs) THEN Served(r)
           ELSE Commit(r, Put(data, "comments", updated_comments), uuids)
    /\ UNCHANGED <<callVars, calls>>

NotesNext ==
    \/ \E form \in NoteForms : InsertNewNote(form)
    \/ \E form \in NoteUpdateForms : UpdateNoteById(form)
    \/ DeleteNoteById
    \/ \E u \in {"u1", "u2"} : InsertRevisionEvent(u, <<1>>, None)
    \/ \E id \in Ids : \E st \in {"accepted", "rejected"} : UpdateRevisionStatus(id, st)
    \/ \E u \in {"u1", "u2"} : \E form \in NoteCommentForms : InsertNoteComment(u, form)
    \/ \E id \in Ids : \E form \in NoteCommentUpdateForms : UpdateNoteComment(id, form)
    \/ \E id \in Ids : DeleteNoteComment(id)

SpecNotes == Init /\ [][NotesNext]_vars

----------------------------------------------------------------------------
(* Properties *)

Unsup == report.unsupported_elements

ValidContainer(c) ==
    c.zip /\ "word/document.xml" \in c.namelist /\ c.docxml = "ok"

\* C1: the report a call returns has lossy equal to "unsupported_elements
\* is non-empty", for import and for export.
C1_LossyIffUnsupported ==
    pc = "returned" => (report.lossy <=> Unsup # <<>>)

C1_Witness ==
    /\ pc = "returned" /\ op = "import"
    /\ report.lossy /\ Unsup # <<>>

\* C2: in the report a call returns, unsupported_elements is strictly
\* ascending (sorted, no value twice).
C2_SortedNoDuplicates ==
    pc = "returned" =>
        \A i, j \in 1..Len(Unsup) : i < j => StrLess(Unsup[i], Unsup[j])

\* an import that met "sdt", then two unresolvable drawings, then "del"
C2_Witness ==
    /\ pc = "returned" /\ op = "import"
    /\ Len(body) = 2
    /\ body[1].tag = <<"s", "d", "t">>
    /\ body[2] = P(<<>>, <<DrawingRun("noblip", <<>>), DrawingRun("noblip", <<>>)>>)
    /\ Unsup = <<sDrawing, <<"s", "d", "t">>>>

SimpleRun(run) == run.drawing = "none" /\ run.fnref = <<>> /\ run.cref = <<>>

SimpleRuns(runs) == \A k \in 1..Len(runs) : SimpleRun(runs[k])

\* a paragraph (plain or styled) or a table, holding text runs only, or the
\* section properties
SimpleNode(n) ==
    \/ n.tag = tP /\ SimpleRuns(n.runs)
    \/ n.tag = tSectPr
    \/ /\ n.tag = tTbl
       /\ \A r \in 1..Len(n.rows) : \A c \in 1..Len(n.rows[r]) :
            \A q \in 1..Len(n.rows[r][c]) : SimpleRuns(n.rows[r][c][q])

SimpleBody(b) == \A k \in 1..Len(b) : SimpleNode(b[k])

\* C3: importing a valid container whose body holds only paragraphs,
\* headings and tables of text runs never raises, records no unsupported
\* element at any point and returns lossy = FALSE.
C3_SimpleBodyLossless ==
    (op = "import" /\ ValidContainer(content) /\ SimpleBody(content.body)) =>
        /\ pc # "raised"
        /\ Unsup = <<>>
        /\ ~report.lossy

C3_Witness ==
    /\ pc = "returned" /\ op = "import"
    /\ SimpleBody(content.body)
    /\ \E i, j \in 1..Len(body) :
          /\ body[i].tag = tTbl /\ report.mapped.tables = 1
          /\ body[j].tag = tP /\ report.mapped.styles = 1
    /\ ~report.lossy

\* the child the walk has just processed
LastChild == body[idx - 1]

JustWalked(tag) ==
    /\ op = "import" /\ pc = "walk" /\ idx > 1
    /\ LastChild.tag = tag

\* the rows of a table that hold at least one cell, as cell texts
ParsedRows(table) == TableRows(table.rows, Start(NewReport), rel_map).out

\* a row as the claim wants it: the header's column count, the row's own
\* cells first, empty strings after them
Rectangular(row, header) ==
    [j \in 1..Len(header) |-> IF j <= Len(row) THEN row[j] ELSE <<>>]

ExpectedTable(rows) ==
    Join(<<NL>>,
         <<RenderRow(rows[1]), RenderRow(Repeat(sDashes, Len(rows[1])))>>
         \o [k \in 1..(Len(rows) - 1) |-> RenderRow(Rectangular(rows[k + 1], rows[1]))])

\* C4: the block emitted for a table renders, after the header and the
\* separator, every data row with exactly the header's number of cells:
\* padded on the right with empty strings, or truncated.
C4_RowsRectangular ==
    (JustWalked(tTbl) /\ ParsedRows(LastChild) # <<>>) =>
        /\ blocks # <<>>
        /\ blocks[Len(blocks)] = ExpectedTable(ParsedRows(LastChild))

\* a table with a data row shorter and a data row longer than the header
C4_Witness ==
    /\ JustWalked(tTbl)
    /\ LET rows == ParsedRows(LastChild)
       IN  /\ Len(rows) >= 3
           /\ \E k \in 2..Len(rows) : Len(rows[k]) < Len(rows[1])
           /\ \E k \in 2..Len(rows) : Len(rows[k]) > Len(rows[1])

\* the order the claim gives to ids: numeric ids by value, then the others
\* lexicographically
SpecIdLess(a, b) ==
    IF IsDigit(a) /\ IsDigit(b) THEN IntOf(a) < IntOf(b)
    ELSE IF IsDigit(a) THEN TRUE
    ELSE IF IsDigit(b) THEN FALSE
    ELSE StrLess(a, b)

RECURSIVE SpecOrder(_)
SpecOrder(S) ==
    IF S = {} THEN <<>>
    ELSE LET m == CHOOSE x \in S : \A y \in S \ {x} : SpecIdLess(x, y)
         IN  <<m>> \o SpecOrder(S \ {m})

\* the n blocks that follow the block `header`
SectionAfter(header, n) ==
    IF \E h \in 1..Len(blocks) : blocks[h] = header
    THEN LET h == CHOOSE k \in 1..Len(blocks) : blocks[k] = header
         IN  SubSeq(blocks, h + 1, h + n)
    ELSE <<>>

WalkOver ==
    /\ op = "import" /\ ValidContainer(content)
    /\ pc \in {"finish", "returned", "raised"}

\* C5: once the body walk is over, an import that met footnote references
\* has a footnotes section listing the referenced ids in the claim's order
\* (numeric by value, then non-numeric lexicographically), and likewise the
\* comments section; this for any set of ids, mixed sets included.
C5_SectionsInSpecOrder ==
    /\ (WalkOver /\ encountered_footnotes # <<>>) =>
          LET ids == SpecOrder(SeqRange(encountered_footnotes))
          IN  /\ pc # "raised"
              /\ SectionAfter(sFootnotesHeader, Len(ids))
                    = [k \in 1..Len(ids) |-> FootnoteLine(ids[k], footnotes)]
    /\ (WalkOver /\ encountered_comments # <<>>) =>
          LET ids == SpecOrder(SeqRange(encountered_comments))
          IN  /\ pc # "raised"
              /\ SectionAfter(sCommentsHeader, Len(ids))
                    = [k \in 1..Len(ids) |-> CommentLine(ids[k], comments)]

\* the level the claim gives to a style
ClaimLevel(style) ==
    IF style = sTitle THEN 1
    ELSE IF style = sSubtitle THEN 2
    ELSE IF Len(style) = Len(sHeading) + 1 /\ StartsWith(style, sHeading)
            /\ style[Len(style)] \in {"1", "2", "3", "4", "5", "6"}
    THEN DigitValue[style[Len(style)]]
    ELSE 0

\* the text of a paragraph made of unformatted text runs
ParagraphText(n) == Concat([k \in 1..Len(n.runs) |-> n.runs[k].t])

\* a paragraph of style HeadingN (N in 1..6), Title or Subtitle whose runs
\* are unformatted text that is not blank and neither starts nor ends with
\* whitespace
ClaimHeading(n) ==
    /\ n.tag = tP
    /\ ClaimLevel(n.style) > 0
    /\ SimpleRuns(n.runs)
    /\ \A k \in 1..Len(n.runs) : ~n.runs[k].b /\ ~n.runs[k].i /\ ~n.runs[k].u
    /\ ParagraphText(n) # <<>>
    /\ Strip(ParagraphText(n)) = ParagraphText(n)

ClaimBlock(n) == Hashes(ClaimLevel(n.style)) \o <<" ">> \o ParagraphText(n)

C6_Step ==
    (pc = "walk" /\ idx <= Len(body) /\ ClaimHeading(body[idx])) =>
        /\ blocks' = Append(blocks, ClaimBlock(body[idx]))
        /\ report'.mapped.styles = report.mapped.styles + 1
        /\ report'.unsupported_elements = report.unsupported_elements

C6_Document ==
    (/\ pc = "returned" /\ op = "import"
     /\ body # <<>>
     /\ \A k \in 1..Len(body) : ClaimHeading(body[k])) =>
        /\ markdown_content
              = Join(<<NL, NL>>, [k \in 1..Len(body) |-> ClaimBlock(body[k])])
        /\ report.mapped.styles = Len(body)
        /\ ~report.lossy

\* C6: walking a paragraph of style HeadingN (1..6), Title or Subtitle with
\* text T appends the block "#" x level, a space, T and adds exactly one to
\* mapped.styles; a document of such paragraphs only returns these blocks
\* with lossy = FALSE.
C6_HeadingBlocks == [][C6_Step]_vars /\ []C6_Document

\* the spec's scenario 1: one Heading1 paragraph "Hello" gives "# Hello"
C6_Witness ==
    /\ pc = "returned" /\ op = "import"
    /\ body = <<P(sHeading \o <<"1">>, <<TextRun(<<"H", "e", "l", "l", "o">>)>>)>>
    /\ markdown_content = <<"#", " ", "H", "e", "l", "l", "o">>
    /\ report.mapped.styles = 1
    /\ ~report.lossy

\* a table with a two-cell header whose first data row holds the one
\* populated cell "a"
Scenario2Table(table) ==
    LET rows == ParsedRows(table)
    IN  /\ Len(rows) >= 2
        /\ Len(rows[1]) = 2
        /\ rows[2] \in {<< <<"a">> >>, << <<"a">>, <<>> >>}

\* the line of the emitted block after the header and the separator
FirstDataLine == SplitLines(blocks[Len(blocks)])[3]

\* C7 as claimed: the row is emitted as `| a | |`, one space between the
\* last two pipes.
C7_SingleSpaceRow ==
    (JustWalked(tTbl) /\ Scenario2Table(LastChild)) =>
        FirstDataLine = <<"|", " ", "a", " ", "|", " ", "|">>

\* C7 as amended: the row is emitted as `| a |  |`: the empty cell stands
\* between the separator " | " and the closing " |", two spaces in all.
C7_TwoSpaceRow ==
    (JustWalked(tTbl) /\ Scenario2Table(LastChild)) =>
        FirstDataLine = <<"|", " ", "a", " ", "|", " ", " ", "|">>

C7_Witness ==
    /\ JustWalked(tTbl)
    /\ Scenario2Table(LastChild)
    /\ Len(LastChild.rows[2]) = 1

Unopenable(c) == ~c.zip \/ "word/document.xml" \notin c.namelist

\* C8 as claimed: an import fails exactly when the buffer is no zip archive
\* or the archive lacks word/document.xml.
C8_FailsOnlyOnFormat ==
    op = "import" => (pc = "raised" <=> Unopenable(content))

\* C8 as amended: an import of a buffer that is no zip archive, or of an
\* archive without word/document.xml, fails before anything is parsed and
\* returns no result.
C8_FormatErrorFails ==
    (op = "import" /\ Unopenable(content)) =>
        /\ pc = "raised"
        /\ exc = (IF content.zip THEN "ValueError" ELSE "BadZipFile")
        /\ blocks = <<>> /\ markdown_content = <<>> /\ report = NewReport

C8_Witness ==
    /\ op = "import" /\ pc = "raised"
    /\ content.zip /\ "word/document.xml" \notin content.namelist
    /\ exc = "ValueError"

\* C9: an import of a valid zip archive whose word/document.xml parses and
\* holds a body never ends in an exception.
C9_ValidContainerCompletes ==
    (op = "import" /\ ValidContainer(content)) => pc # "raised"

PlainChars(t) == \A k \in 1..Len(t) : t[k] \notin {"|", "[", "]", NL}

\* markup of three lines: "#" x n, a space and text; a blank line; a line
\* of text that is not blank and does not start with "#"; neither text
\* holding a pipe or a bracket
Scenario4Markup(md, n, t, q) ==
    /\ md = Hashes(n) \o <<" ">> \o t \o <<NL, NL>> \o q
    /\ PlainChars(t) /\ PlainChars(q)
    /\ Strip(q) # <<>>
    /\ Head(q) # "#"

ArchiveNames == [k \in 1..Len(archive) |-> archive[k].name]

\* a pipe-delimited table line: trimmed, it opens with a pipe and closes
\* with another
PipeDelimited(line) ==
    LET t == Strip(line) IN Len(t) >= 2 /\ Head(t) = "|" /\ t[Len(t)] = "|"

HasPipeLine(md) ==
    LET ls == SplitLines(md) IN \E k \in 1..Len(ls) : PipeDelimited(ls[k])

\* an image reference ![alt](target) with a non-empty target
HasImageRef(md) ==
    \E i \in 1..(Len(md) - 1) :
        /\ md[i] = "!" /\ md[i + 1] = "["
        /\ \E j \in (i + 2)..(Len(md) - 1) :
              /\ md[j] = "]" /\ md[j + 1] = "("
              /\ "]" \notin SeqRange(SubSeq(md, i + 2, j - 1))
              /\ \E k \in (j + 3)..Len(md) :
                    /\ md[k] = ")"
                    /\ ")" \notin SeqRange(SubSeq(md, j + 2, k - 1))

\* a footnote reference [^id] with a non-empty id
HasFootnoteRef(md) ==
    \E i \in 1..(Len(md) - 1) :
        /\ md[i] = "[" /\ md[i + 1] = "^"
        /\ \E k \in (i + 3)..Len(md) :
              /\ md[k] = "]"
              /\ "]" \notin SeqRange(SubSeq(md, i + 2, k - 1))

Untimed(a) ==
    [k \in 1..Len(a) |->
        [name |-> a[k].name,
         data |-> IF a[k].name = "docProps/core.xml"
                  THEN <<a[k].data[1]>> ELSE a[k].data]]

\* C12 as claimed: a call with the same title and markup made at any other
\* moment returns the same bytes and the same report as this one.
C12_SameBytesAtAnyMoment ==
    (op = "export" /\ pc = "returned") =>
        \A now \in Moments :
            ExportNoteToDocx(title, markdown_content, now)
                    = [bytes |-> archive, report |-> report]

\* C12 as amended: a call with the same title and markup made at any other
\* moment returns the same report and an archive with the same entries in
\* the same fixed order, equal to this one's up to the dates of
\* docProps/core.xml and the entries' modification times; made at the same
\* moment it returns the same bytes.
C12_SameUpToClock ==
    (op = "export" /\ pc = "returned") =>
        LET ps == MdToDocxXml(markdown_content)
            rep == ExportFinalize(ExportScanReport(NewReport, markdown_content))
        IN  /\ ArchiveNames = PartNames
            /\ rep = report
            /\ \A now \in Moments :
                  LET other == Package(title, ps, now)
                  IN  /\ Untimed(other) = Untimed(archive)
                      /\ now = archive[4].date_time => other = archive

\* an export made at a later moment than another one with the same input
C12_Witness ==
    /\ op = "export" /\ pc = "returned"
    /\ title = <<"<", "&", "b">> /\ markdown_content = <<"a">>
    /\ archive[4].data[2] = 2
    /\ archive # ExportNoteToDocx(title, markdown_content, 1).bytes
    /\ Untimed(archive) = Untimed(ExportNoteToDocx(title, markdown_content, 1).bytes)

\* the walk has taken the first body child and nothing else: blocks and
\* report are what that child alone left
WalkedFirst(tag) ==
    /\ op = "import" /\ pc = "walk" /\ idx = 2
    /\ body[1].tag = tag

\* the digits after "Heading" in a style HeadingN with numeric N
HeadingNumber(style) == SubSeq(style, Len(sHeading) + 1, Len(style))

NumericHeading(n) ==
    /\ n.tag = tP
    /\ StartsWith(n.style, sHeading)
    /\ IsDigit(HeadingNumber(n.style))

\* N clamped to 1..6
ClampedLevel(n) == Max(1, Min(6, IntOf(HeadingNumber(n.style))))

\* unformatted text runs whose text is not blank and has no whitespace at
\* either end
PlainText(n) ==
    /\ SimpleRuns(n.runs)
    /\ \A k \in 1..Len(n.runs) : ~n.runs[k].b /\ ~n.runs[k].i /\ ~n.runs[k].u
    /\ ParagraphText(n) # <<>>
    /\ Strip(ParagraphText(n)) = ParagraphText(n)

\* C14: a paragraph of style HeadingN, N numeric, with text T counts as a
\* mapped style and gives the block "#" x (N clamped to 1..6), a space, T:
\* level 6 for N above 6, level 1 for N below 1.
C14_HeadingLevelClamped ==
    (WalkedFirst(tP) /\ NumericHeading(body[1]) /\ PlainText(body[1])) =>
        (report.mapped.styles = 1 =>
            blocks = << Hashes(ClampedLevel(body[1])) \o <<" ">>
                        \o ParagraphText(body[1]) >>)

\* the drawing of the run resolves through the relationship map
Resolves(run) ==
    run.drawing = "blip" /\ run.embed # <<>> /\ run.embed \in DOMAIN rel_map

DrawingRuns(n) == {k \in 1..Len(n.runs) : n.runs[k].drawing # "none"}

\* how many times x occurs in the sequence s
Occurrences(s, x) == Cardinality({k \in 1..Len(s) : s[k] = x})

\* C15: after a paragraph, mapped.images counts exactly its drawings whose
\* embed id resolves through the relationship map, and "drawing" was
\* recorded once for each of its other drawings (no image reference, no
\* embed id, or an embed id the map does not hold).
C15_ImageOnlyWhenResolved ==
    WalkedFirst(tP) =>
        /\ report.mapped.images
              = Cardinality({k \in DrawingRuns(body[1]) : Resolves(body[1].runs[k])})
        /\ Occurrences(Unsup, sDrawing)
              = Cardinality({k \in DrawingRuns(body[1]) : ~Resolves(body[1].runs[k])})

\* the fragment of one run, with the marker of its reference where the
\* reference stands
FragmentInPlace(run) ==
    RunToMarkdown(run, NewReport, rel_map).out
    \o (IF run.fnref # <<>> /\ run.fnref \in DOMAIN footnotes
        THEN FootnoteMarker(run.fnref) ELSE <<>>)
    \o (IF run.cref # <<>> /\ run.cref \in DOMAIN comments
        THEN CommentMarker(run.cref) ELSE <<>>)

\* C16: the text of an unstyled paragraph is its runs' fragments in document
\* order, each footnote or comment marker standing where its reference is.
C16_FragmentsInDocumentOrder ==
    (WalkedFirst(tP) /\ body[1].style = <<>>) =>
        LET text == Strip(Concat([k \in 1..Len(body[1].runs) |->
                                     FragmentInPlace(body[1].runs[k])]))
        IN  blocks = IF text # <<>> THEN <<text>> ELSE <<>>

\* a paragraph without content: no drawing, no reference, and run texts
\* that are empty once trimmed, formatted or not
EmptyContent(n) ==
    /\ n.tag = tP
    /\ SimpleRuns(n.runs)
    /\ Strip(ParagraphText(n)) = <<>>

\* C17: a paragraph without content adds no block, whatever its style and
\* the formatting of its runs.
C17_EmptyParagraphDropped ==
    (WalkedFirst(tP) /\ EmptyContent(body[1])) => blocks = <<>>

\* an entry the claim excludes: no id, a separator id, or no text
ExcludedId(id) == id = <<>> \/ Head(id) = "-"

\* C18: neither auxiliary table holds an entry without id, with an id that
\* starts with "-", or with empty text, and no reference to such an id is
\* encountered, marked or counted.
C18_BothTablesExclude ==
    (op = "import" /\ pc \in {"walk", "finish", "returned"}) =>
        /\ \A id \in DOMAIN footnotes : ~ExcludedId(id) /\ footnotes[id] # <<>>
        /\ \A id \in DOMAIN comments : ~ExcludedId(id) /\ comments[id] # <<>>
        /\ \A k \in 1..Len(encountered_footnotes) : ~ExcludedId(encountered_footnotes[k])
        /\ \A k \in 1..Len(encountered_comments) : ~ExcludedId(encountered_comments[k])

\* the lines as the claims about the scanner classify them
ClaimPipeLine(line) ==
    LET t == Strip(line) IN t # <<>> /\ Head(t) = "|" /\ t[Len(t)] = "|"

\* a separator row: dashes only, once the pipes are taken out and the rest
\* is trimmed
ClaimDashLine(line) ==
    LET t == Strip(RemoveAll(line, <<"|">>))
    IN  t # <<>> /\ \A k \in 1..Len(t) : t[k] = "-"

ClaimBlank(line) == \A k \in 1..Len(line) : line[k] \in Whitespace

\* the paragraph of a line under the normal rules
NormalParagraph(line) ==
    IF ClaimBlank(line) THEN EmptyParagraph ELSE LineParagraph(line)

C19_Step ==
    (pc = "scan" /\ lineNo <= Len(lines)) =>
        LET line == lines[lineNo]
        IN  IF ClaimPipeLine(line)
            THEN in_table' /\ paragraphs' = paragraphs
            ELSE IF in_table /\ (ClaimDashLine(line) \/ ClaimBlank(line))
            THEN in_table' /\ paragraphs' = paragraphs
            ELSE ~in_table' /\ paragraphs' = Append(paragraphs, NormalParagraph(line))

C19_State ==
    /\ (pc = "scan" /\ lineNo = 1) => ~in_table
    /\ in_table => \E k \in 1..(lineNo - 1) : ClaimPipeLine(lines[k])

\* C19: the scanner starts normal; a pipe-delimited line puts or keeps it
\* in_table and emits nothing; in_table, separator rows and blank lines are
\* consumed and leave it in_table; any other line returns it to normal and
\* is classified under the normal rules; it is in_table only after a
\* pipe-delimited line.
C19_ScannerStates == [][C19_Step]_vars /\ []C19_State

\* a table row, a blank line consumed in_table, then a text line that
\* returned the scanner to normal and gave its paragraph
C19_Witness ==
    /\ op = "export" /\ pc = "scan" /\ lineNo = 4
    /\ lines = << <<"|", "a", "|">>, <<>>, <<"a">> >>
    /\ ~in_table
    /\ paragraphs = <<TextParagraph(0, <<"a">>)>>

\* line k is read in_table: a pipe-delimited line stands before it and only
\* pipe-delimited lines, separator rows and blank lines lie between
ReadInTable(ls, k) ==
    \E j \in 1..(k - 1) :
        /\ ClaimPipeLine(ls[j])
        /\ \A m \in (j + 1)..(k - 1) :
              ClaimPipeLine(ls[m]) \/ ClaimDashLine(ls[m]) \/ ClaimBlank(ls[m])

BlankLines(ls) == {k \in 1..Len(ls) : ClaimBlank(ls[k])}

\* C20 as claimed: every fully blank line of the markup gives exactly one
\* empty paragraph of the body, also after a table row.
C20_EveryBlankLineParagraph ==
    (op = "export" /\ pc \in {"package", "returned"}) =>
        Occurrences(paragraphs, EmptyParagraph) = Cardinality(BlankLines(lines))

\* the lines that give a paragraph: not pipe-delimited and, when read
\* in_table, neither a separator row nor blank
EmittingLines(ls) ==
    {k \in 1..Len(ls) :
        /\ ~ClaimPipeLine(ls[k])
        /\ ~(ReadInTable(ls, k) /\ (ClaimDashLine(ls[k]) \/ ClaimBlank(ls[k])))}

\* C20 as amended: in_table, pipe-delimited lines, separator rows and blank
\* lines are skipped and any other line is classified normally; a fully blank
\* line gives exactly one empty paragraph when it is read outside a table
\* and none when it is read in_table.
C20_BlankLineOutsideTable ==
    (op = "export" /\ pc \in {"package", "returned"}) =>
        /\ Len(paragraphs) = Cardinality(EmittingLines(lines))
        /\ Occurrences(paragraphs, EmptyParagraph)
              = Cardinality({k \in BlankLines(lines) : ~ReadInTable(lines, k)})

\* an export whose blank line follows a table row and gave no paragraph
C20_Witness ==
    /\ op = "export" /\ pc = "returned"
    /\ lines = << <<"|", "a", "|">>, <<>>, <<"a">> >>
    /\ paragraphs = <<TextParagraph(0, <<"a">>)>>

\* the call of a record, run alone from its arguments up to its return,
\* its raise or, for an export, the packaging
RECURSIVE RunAlone(_)
RunAlone(s) ==
    IF s.pc \in {"walk", "finish", "scan"} THEN RunAlone(StepCall(s)) ELSE s

\* what the call of worker w gives when no other call runs
Alone(w) ==
    RunAlone(IF calls[w].op = "import"
             THEN ImportBeginCall(calls[w].content)
             ELSE ExportBeginCall(calls[w].title, calls[w].markdown_content))

\* C13: under every interleaving, a call that returned or raised has the
\* report, the markup, the document body and the outcome it has when run
\* alone, and an export's archive is the one packaged from them.
C13_SameAsAlone ==
    \A w \in Workers :
        calls[w].pc \in {"returned", "raised"} =>
            /\ calls[w].report = Alone(w).report
            /\ calls[w].exc = Alone(w).exc
            /\ calls[w].markdown_content = Alone(w).markdown_content
            /\ calls[w].paragraphs = Alone(w).paragraphs
            /\ calls[w].op = "export" =>
                  \E now \in Moments :
                      calls[w].archive
                          = Package(calls[w].title, Alone(w).paragraphs, now)

\* a call returned a report with counts and unsupported elements of its own
\* while another call, which had already counted, was still running
C13_Witness ==
    \E v, w \in Workers :
        /\ v # w
        /\ calls[v].pc = "returned" /\ calls[v].op = "import"
        /\ calls[v].report.mapped.images = 1 /\ calls[v].report.lossy
        /\ calls[w].pc = "walk" /\ calls[w].idx > 1
        /\ calls[w].report.mapped.styles = 1

\* a heading-marker line of level n: n "#", then a space
MarkerLine(line, n) ==
    /\ Len(line) > n
    /\ \A k \in 1..n : line[k] = "#"
    /\ line[n + 1] = " "

MarkerLevels(line) == {n \in 1..6 : MarkerLine(line, n)}

\* the paragraph the claims give a non-blank line outside a table: a
\* heading of level n with the trimmed remainder after a marker of level n,
\* else a plain paragraph with the whole line
ClaimParagraph(line) ==
    IF MarkerLevels(line) # {}
    THEN LET n == CHOOSE m \in MarkerLevels(line) : TRUE
         IN  TextParagraph(n, HtmlEscape(Strip(SubSeq(line, n + 2, Len(line)))))
    ELSE TextParagraph(0, HtmlEscape(line))

C21_Step ==
    (/\ pc = "scan" /\ lineNo <= Len(lines)
     /\ ~ClaimBlank(lines[lineNo])
     /\ paragraphs' # paragraphs) =>
        paragraphs' = Append(paragraphs, ClaimParagraph(lines[lineNo]))

\* C21: a non-blank line that is not consumed by table handling gives a
\* heading paragraph of level N exactly when it begins with N "#",
\* 1 <= N <= 6, and a space, its text being the remainder; any other such
\* line gives an unstyled paragraph whose text is the whole line.
C21_HeadingExactlyOnMarker == [][C21_Step]_vars

\* the <w:p> elements of a body, in order
IsParagraph(e) == "pStyle" \in DOMAIN e

BodyParagraphs(doc) == SelectSeq(doc, IsParagraph)

\* the paragraphs of the main document that carry a heading style
HeadingParagraphs(doc) ==
    LET ps == BodyParagraphs(doc)
    IN  {k \in 1..Len(ps) : ~ps[k].empty /\ ps[k].pStyle > 0}

\* the lines of the markup that are heading-marker lines
MarkerLines(ls) == {k \in 1..Len(ls) : MarkerLevels(ls[k]) # {}}

\* C22: after an export mapped.styles is the number of heading-marker lines
\* of the markup and the number of heading paragraphs of the main document;
\* the other mapped counters are 0.
C22_StylesCountHeadings ==
    (op = "export" /\ pc = "returned") =>
        /\ report.mapped.styles = Cardinality(MarkerLines(lines))
        /\ report.mapped.styles = Cardinality(HeadingParagraphs(archive[5].data))
        /\ \A cat \in DOMAIN report.mapped \ {"styles"} : report.mapped[cat] = 0

\* the lines that are not consumed by table handling, in markup order
RECURSIVE ClassifiedFrom(_, _)
ClassifiedFrom(ls, k) ==
    IF k > Len(ls) THEN <<>>
    ELSE (IF k \in EmittingLines(ls) THEN <<k>> ELSE <<>>) \o ClassifiedFrom(ls, k + 1)

\* C23: the body of the main document is one paragraph per classified line,
\* in the order of the lines, a blank line giving an empty paragraph, and
\* then exactly one section-properties element.
C23_OneParagraphPerLine ==
    (op = "export" /\ pc = "returned") =>
        LET doc == archive[5].data
            cl == ClassifiedFrom(lines, 1)
        IN  /\ Len(doc) = Len(cl) + 1
            /\ doc[Len(doc)] = SectPr
            /\ \A k \in 1..Len(cl) :
                  /\ IsParagraph(doc[k])
                  /\ doc[k] = NormalParagraph(lines[cl[k]])
                  /\ ClaimBlank(lines[cl[k]]) <=> doc[k] = EmptyParagraph

\* an export of a blank line, a table row that gives no paragraph and a
\* text line
C23_Witness ==
    /\ op = "export" /\ pc = "returned"
    /\ lines = << <<>>, <<"|", "a", "|">>, <<"a">> >>
    /\ archive[5].data = <<EmptyParagraph, TextParagraph(0, <<"a">>), SectPr>>

\* the references that stand for the escaped characters
Entities == {r.ref : r \in References}

\* no "<" or ">" stands in t, and every "&" of t opens a reference
NoMarkup(t) ==
    /\ \A k \in 1..Len(t) : t[k] \notin {"<", ">"}
    /\ \A k \in 1..Len(t) :
          t[k] = "&" =>
             \E e \in Entities :
                /\ k + Len(e) - 1 <= Len(t)
                /\ SubSeq(t, k, k + Len(e) - 1) = e

\* the text a classified line hands to html.escape
LineText(line) ==
    LET n == LeadingHashes(line)
        rest == SubSeq(line, n + 1, Len(line))
    IN  IF n > 0 /\ StartsWith(rest, <<" ">>) THEN Strip(rest) ELSE line

\* C24: every text the export writes into word/document.xml and the title
\* it writes into docProps/core.xml is XML-escaped: no "<", ">" or "&" of
\* the input stands unescaped in them, and a parser reads the input's text
\* back from them.
C24_TextEscaped ==
    (op = "export" /\ pc = "returned") =>
        LET ps == BodyParagraphs(archive[5].data)
            cl == ClassifiedFrom(lines, 1)
        IN  /\ NoMarkup(archive[4].data[1])
            /\ XmlUnescape(archive[4].data[1]) = title
            /\ Len(ps) = Len(cl)
            /\ \A k \in 1..Len(ps) :
                  /\ NoMarkup(ps[k].text)
                  /\ ~ps[k].empty => XmlUnescape(ps[k].text) = LineText(lines[cl[k]])

\* an export whose title and whose line hold "<", ">" and "&"
C24_Witness ==
    /\ op = "export" /\ pc = "returned"
    /\ title = <<"<", "&", "b">>
    /\ lines = << <<"<", "a", ">", "&", "\"", "'">> >>
    /\ archive[4].data[1] = <<"&", "l", "t", ";", "&", "a", "m", "p", ";", "b">>
    /\ archive[5].data[1].text
          = <<"&", "l", "t", ";", "a", "&", "g", "t", ";", "&", "a", "m", "p", ";",
              "&", "q", "u", "o", "t", ";", "&", "#", "x", "2", "7", ";">>

\* what a step has appended to unsupported_elements
NewlyUnsupported ==
    SubSeq(report'.unsupported_elements,
           Len(report.unsupported_elements) + 1, Len(report'.unsupported_elements))

C25_Step ==
    (pc = "walk" /\ idx <= Len(body)) =>
        LET child == body[idx]
        IN  IF child.tag = tSectPr
            THEN report' = report /\ blocks' = blocks
            ELSE IF child.tag \notin {tP, tTbl}
            THEN /\ NewlyUnsupported = <<child.tag>>
                 /\ report'.mapped = report.mapped
                 /\ blocks' = blocks
            ELSE child.tag \notin SeqRange(NewlyUnsupported)

C25_State ==
    (op = "import" /\ pc = "returned") =>
        /\ tSectPr \notin SeqRange(Unsup)
        /\ tP \notin SeqRange(Unsup) /\ tTbl \notin SeqRange(Unsup)
        /\ \A k \in 1..Len(body) :
              body[k].tag \notin {tP, tTbl, tSectPr} => body[k].tag \in SeqRange(Unsup)

\* C25: the walk ignores a top-level section-properties node and never
\* reports it; any top-level node that is neither a paragraph, a table nor
\* section properties has its tag added to unsupported_elements and gives no
\* block; a paragraph or a table never adds its own tag.
C25_TopLevelNodes == [][C25_Step]_vars /\ []C25_State

\* an import whose body is an unsupported node and section properties
C25_Witness ==
    /\ op = "import" /\ pc = "returned"
    /\ body = <<Other(<<"s", "d", "t">>), Other(tSectPr)>>
    /\ Unsup = << <<"s", "d", "t">> >>
    /\ blocks = <<>>
    /\ report.lossy

\* the ids of the elements of a list
IdsOf(list) == {list[k].id : k \in 1..Len(list)}

C26_Step ==
    /\ \A id \in IdsOf(GetNoteComments(note)) :
          (/\ request'.method # "delete_note_by_id"
           /\ ~(request'.method = "delete_note_comment" /\ request'.id = id)) =>
              id \in IdsOf(GetNoteComments(note'))
    /\ \A id \in IdsOf(GetNoteRevisions(note)) :
          request'.method # "delete_note_by_id" =>
              id \in IdsOf(GetNoteRevisions(note'))

\* C26: a comment or a revision recorded on a note is still returned by
\* get_note_comments / get_note_revisions after any later operation on the
\* note other than its own deletion, update_note_by_id with content data
\* included.
C26_CommentsAndRevisionsKept == [][C26_Step]_vars

\* the number of places where sub stands in s
CountSub(s, sub) ==
    Cardinality({i \in 1..(Len(s) - Len(sub) + 1) : SubSeq(s, i, i + Len(sub) - 1) = sub})

\* the lines of the returned markup
MarkupLines == SplitLines(markdown_content)

\* the position of the first line that is `header`, 0 when there is none
HeaderLine(header) ==
    IF \E k \in 1..Len(MarkupLines) : MarkupLines[k] = header
    THEN CHOOSE k \in 1..Len(MarkupLines) :
            MarkupLines[k] = header /\ \A j \in 1..(k - 1) : MarkupLines[j] # header
    ELSE 0

sFootnotesLine == <<"#", "#", " ", "F", "o", "o", "t", "n", "o", "t", "e", "s">>
sCommentsLine == <<"#", "#", " ", "C", "o", "m", "m", "e", "n", "t", "s">>

\* where the trailing sections start, past the last line when there is none
SectionsStart ==
    LET f == HeaderLine(sFootnotesLine)
        c == HeaderLine(sCommentsLine)
    IN  IF f > 0 THEN f ELSE IF c > 0 THEN c ELSE Len(MarkupLines) + 1

\* the non-blank lines of the section under `header`: up to the next header
SectionLines(header, nextHeader) ==
    LET h == HeaderLine(header)
        n == HeaderLine(nextHeader)
        last == IF n > h THEN n - 1 ELSE Len(MarkupLines)
        IsText(line) == line # <<>>
    IN  IF h = 0 THEN <<>> ELSE SelectSeq(SubSeq(MarkupLines, h + 1, last), IsText)

\* every id the container names: in its auxiliary parts and in its body
RefIds(field) ==
    UNION { {content.body[k].runs[j][field] : j \in 1..Len(content.body[k].runs)} :
              k \in 1..Len(content.body) } \ {<<>>}

FootnoteIds == {content.footnotes[k].id : k \in 1..Len(content.footnotes)} \cup RefIds("fnref")
CommentIds == {content.comments[k].id : k \in 1..Len(content.comments)} \cup RefIds("cref")

RECURSIVE CountIn(_, _)
CountIn(ls, sub) ==
    IF ls = <<>> THEN 0 ELSE CountSub(Head(ls), sub) + CountIn(Tail(ls), sub)

\* the inline markers of an id: its occurrences before the trailing sections
InlineMarkers(marker) == CountIn(SubSeq(MarkupLines, 1, SectionsStart - 1), marker)

FootnoteDefinition(id) == <<"[", "^">> \o id \o <<"]", ":", " ">>
CommentDefinition(id) == <<"-", " ", "[">> \o id \o <<"]", " ">>

\* the lines of a section that define id
Definitions(section, opening) ==
    Cardinality({k \in 1..Len(section) : StartsWith(section[k], opening)})

C27_Section(ids, Marker(_), Opening(_), section, header) ==
    /\ \A id \in ids :
          /\ InlineMarkers(Marker(id)) > 0 => Definitions(section, Opening(id)) = 1
          /\ Definitions(section, Opening(id)) > 0 => InlineMarkers(Marker(id)) > 0
    /\ \A k \in 1..Len(section) : \E id \in ids : StartsWith(section[k], Opening(id))
    /\ HeaderLine(header) > 0 <=> section # <<>>

\* C27: in the returned markup every inline footnote marker has exactly one
\* definition line in the trailing Footnotes section, every definition line
\* there belongs to an emitted marker, an id referenced several times is
\* defined once, the same holds of comment markers and the Comments
\* section, and a section is present only when it has an entry.
C27_MarkersMatchDefinitions ==
    (op = "import" /\ pc = "returned") =>
        /\ C27_Section(FootnoteIds, FootnoteMarker, FootnoteDefinition,
                       SectionLines(sFootnotesLine, sCommentsLine), sFootnotesLine)
        /\ C27_Section(CommentIds, CommentMarker, CommentDefinition,
                       SectionLines(sCommentsLine, sFootnotesLine), sCommentsLine)

\* an import whose body refers to footnote 10 in two paragraphs
C27_Witness ==
    /\ op = "import" /\ pc = "returned"
    /\ Len(body) = 2
    /\ encountered_footnotes = << <<"1", "0">>, <<"2">>, <<"1", "0">>, <<"2">> >>
    /\ InlineMarkers(FootnoteMarker(<<"1", "0">>)) = 2
    /\ Definitions(SectionLines(sFootnotesLine, sCommentsLine),
                   FootnoteDefinition(<<"1", "0">>)) = 1

\* the inline markers of the ids of a set, footnote or comment markers
RECURSIVE MarkersOf(_, _)
MarkersOf(ids, footnote) ==
    IF ids = {} THEN 0
    ELSE LET id == CHOOSE x \in ids : TRUE
         IN  InlineMarkers(IF footnote THEN FootnoteMarker(id) ELSE CommentMarker(id))
             + MarkersOf(ids \ {id}, footnote)

\* the separator rows of the markup, one per table block
SeparatorRows ==
    {k \in 1..Len(MarkupLines) : StartsWith(MarkupLines[k], <<"|", " ">> \o sDashes)}

\* C28: after an import each mapped counter is the number of its constructs
\* in the returned markup: images the image fragments, tables the table
\* blocks, footnotes the inline [^id] markers, comments the inline
\* [comment:id] markers.
C28_CountersMatchMarkup ==
    (op = "import" /\ pc = "returned") =>
        /\ report.mapped.images = CountSub(markdown_content, sImageOpen)
        /\ report.mapped.tables = Cardinality(SeparatorRows)
        /\ report.mapped.footnotes = MarkersOf(FootnoteIds, TRUE)
        /\ report.mapped.comments = MarkersOf(CommentIds, FALSE)

\* the non-blank lines that give no paragraph
DroppedLines(ls) == {k \in 1..Len(ls) : ~ClaimBlank(ls[k]) /\ k \notin EmittingLines(ls)}

\* C29: whenever a non-blank line of the markup gives no paragraph of the
\* generated document, the export report names "tables" and is lossy.
C29_DroppedLineReported ==
    (op = "export" /\ pc = "returned" /\ DroppedLines(lines) # {}) =>
        /\ sTables \in SeqRange(Unsup)
        /\ report.lossy

----------------------------------------------------------------------------
(* Round trip: import_docx on the archive export_note_to_docx returned *)

\* a pStyle value that carries no level
UnnumberedStyleName(level) == sHeading

\* f"Heading{heading_level}", the w:val of the w:pStyle the export writes
StyleName(level) == sHeading \o <<CHOOSE d \in Digits : DigitValue[d] = level>>

\* the child of w:body that ET.fromstring reads from one element the export
\* wrote: <w:p/>, a paragraph of one run with the unescaped text and the
\* pStyle of a heading, or the closing w:sectPr
ParsedElement(e) ==
    IF "pStyle" \notin DOMAIN e THEN Other(tSectPr)
    ELSE IF e.empty THEN P(<<>>, <<>>)
    ELSE P(IF e.pStyle > 0 THEN StyleName(e.pStyle) ELSE <<>>,
           <<TextRun(XmlUnescape(e.text))>>)

\* the container import_docx opens when given the bytes of an archive: the
\* names the archive holds and the parsed word/document.xml
ArchivedContainer(a) ==
    LET doc == a[CHOOSE k \in DOMAIN a : a[k].name = "word/document.xml"].data
    IN  Container(TRUE, {a[k].name : k \in DOMAIN a}, "ok",
                  [k \in DOMAIN doc |-> ParsedElement(doc[k])])

\* the lines of the markup of the explored round trips
RoundTripLines ==
    { <<>>,
      <<"a">>,
      <<"#", " ">> \o sTitleText,
      Hashes(6) \o <<" ", "T">>,
      <<"<", "a", ">", "&", "\"", "'">>,
      <<"#", "t">>,
      <<"|", "a", "|">>,
      <<"#", " ", "|", "a", "|">> }

\* worker 1 calls export_note_to_docx
RoundTripExport ==
    /\ calls[1].pc = "idle"
    /\ \E ls \in SeqsUpTo(RoundTripLines, MaxLines) : \E t \in Titles :
          calls' = [calls EXCEPT ![1] = ExportBeginCall(t, Join(<<NL>>, ls))]
    /\ UNCHANGED <<callVars, noteVars>>

\* worker 2 calls import_docx on the archive worker 1 was returned
RoundTripImport ==
    /\ calls[1].pc = "returned" /\ calls[1].op = "export"
    /\ calls[2].pc = "idle"
    /\ calls' = [calls EXCEPT
                    ![2] = ImportBeginCall(ArchivedContainer(calls[1].archive))]
    /\ UNCHANGED <<callVars, noteVars>>

\* both calls are over: their locals are gone
RoundTripDone ==
    /\ calls[2].pc \in {"returned", "raised"}
    /\ calls' = [w \in Workers |-> IdleCall]
    /\ UNCHANGED <<callVars, noteVars>>

RoundTripNext ==
    \/ RoundTripExport
    \/ \E w \in Workers : ConcurrentStep(w)
    \/ \E w \in Workers : ConcurrentPackage(w)
    \/ RoundTripImport
    \/ RoundTripDone

SpecRoundTrip == Init /\ [][RoundTripNext]_vars

\* free of the syntax the export reports as unsupported
NoSyntax(text) ==
    /\ ~HasTableSyntax(text)
    /\ ~HasImageSyntax(text)
    /\ ~HasFootnoteSyntax(text)

\* the text of a heading line: what follows the marker of level n
HeadingText(line, n) == SubSeq(line, n + 2, Len(line))

\* "#" x N with 1 <= N <= 6, a space, non-empty trimmed text
HeadingLine(line) ==
    \E n \in MarkerLevels(line) :
        /\ HeadingText(line, n) # <<>>
        /\ HeadingText(line, n) = Strip(HeadingText(line, n))

\* a trimmed text line that starts with neither "#" nor "|" and holds no
\* image, footnote or pipe syntax
PlainLine(line) ==
    /\ line # <<>>
    /\ line = Strip(line)
    /\ Head(line) \notin {"#", "|"}
    /\ NoSyntax(line)

\* the supported subset as the claim words it
SupportedAsStated(md) ==
    LET ls == SplitLines(md)
    IN  \A k \in 1..Len(ls) :
            ls[k] = <<>> \/ HeadingLine(ls[k]) \/ PlainLine(ls[k])

\* the supported subset with the heading texts free of unsupported syntax too
Supported(md) ==
    LET ls == SplitLines(md)
    IN  \A k \in 1..Len(ls) :
            \/ ls[k] = <<>>
            \/ HeadingLine(ls[k]) /\ NoSyntax(ls[k])
            \/ PlainLine(ls[k])

\* the heading level (0 for plain text) and the text of one line of markup
LevelAndText(line) ==
    IF MarkerLevels(line) # {}
    THEN LET n == CHOOSE m \in MarkerLevels(line) : TRUE
         IN  [level |-> n, text |-> Strip(HeadingText(line, n))]
    ELSE [level |-> 0, text |-> line]

NonBlank(line) == Strip(line) # <<>>

\* the sequence of heading levels and texts of the non-blank lines of markup
Profile(md) ==
    LET ls == SelectSeq(SplitLines(md), NonBlank)
    IN  [k \in 1..Len(ls) |-> LevelAndText(ls[k])]

\* an export has returned to worker 1 and the import of its archive to worker 2
RoundTripOver ==
    /\ calls[1].op = "export" /\ calls[1].pc = "returned"
    /\ calls[2].op = "import" /\ calls[2].pc \in {"returned", "raised"}

\* what the round trip keeps: the import returns, its markup has the heading
\* levels and texts of the exported markup, both reports count the same
\* styles and neither is lossy
RoundTripKept ==
    /\ calls[2].pc = "returned"
    /\ Profile(calls[2].markdown_content) = Profile(calls[1].markdown_content)
    /\ calls[2].report.mapped.styles = calls[1].report.mapped.styles
    /\ ~calls[1].report.lossy
    /\ ~calls[2].report.lossy

====
